---------------------------- MODULE Spec2Model ----------------------------
(***************************************************************************)
(* A model of the Unreeled ingestion pipeline (scripts/unreeled_ingest.py  *)
(* and scripts/unreeled_sources_v5.py): the unified release record, the    *)
(* source adapters, the enrichers and UnreeledPipeline.ingest_date.        *)
(*                                                                         *)
(* Python values are tagged records: None is JNull, a str is Str(chars), a *)
(* number Num(n), a list List(seq), a dict Dict(function from keys).  An   *)
(* HTTP exchange is a value the environment chooses; a function that sends *)
(* requests reads the answer to its n-th request from a response stream.   *)
(***************************************************************************)
EXTENDS Integers, Sequences, FiniteSets, TLC

VARIABLES
    pipeline,      \* the UnreeledPipeline object: its sources and enrichers
    pc,            \* the step ingest_date is about to run
    all_releases,  \* ingest_date: the merged list
    source_stats,  \* ingest_date: source key -> count
    errors,        \* ingest_date: source key -> error text
    output,        \* what ingest_date gave its caller (JNull while it runs)
    disk,          \* the file output/releases_<date>.json
    log,           \* what each step run so far was given and did
    call,          \* unit calls: the function called and its arguments
    ret            \* unit calls: what the call returned

vars == <<pipeline, pc, all_releases, source_stats, errors, output, disk, log, call, ret>>

pipeVars == <<pipeline, pc, all_releases, source_stats, errors, output, disk, log>>

callVars == <<call, ret>>

-----------------------------------------------------------------------------
(* Python values *)

JNull == [k |-> "null"]

Str(s) == [k |-> "str", s |-> s]

Num(n) == [k |-> "num", n |-> n]

List(l) == [k |-> "list", l |-> l]

Dict(d) == [k |-> "dict", d |-> d]

Bool(b) == [k |-> "bool", b |-> b]

EmptyStr == Str(<<>>)

EmptyList == List(<<>>)

EmptyDict == Dict(<<>>)

\* Python truth value: None, "", 0, [] and {} are false
Truthy(v) ==
    CASE v.k = "null" -> FALSE
      [] v.k = "str"  -> v.s # <<>>
      [] v.k = "num"  -> v.n # 0
      [] v.k = "list" -> v.l # <<>>
      [] v.k = "dict" -> DOMAIN v.d # {}
      [] v.k = "bool" -> v.b

\* a or b
Or(a, b) == IF Truthy(a) THEN a ELSE b

\* d.get(key, default) on the function d of a dict
Get(d, key, default) == IF key \in DOMAIN d THEN d[key] ELSE default

\* d with d[key] = val set
Put(d, key, val) == [x \in DOMAIN d \cup {key} |-> IF x = key THEN val ELSE d[x]]

LowerOf ==
    ("A" :> "a") @@ ("B" :> "b") @@ ("C" :> "c") @@ ("D" :> "d") @@ ("E" :> "e") @@
    ("F" :> "f") @@ ("G" :> "g") @@ ("H" :> "h") @@ ("I" :> "i") @@ ("J" :> "j") @@
    ("K" :> "k") @@ ("L" :> "l") @@ ("M" :> "m") @@ ("N" :> "n") @@ ("O" :> "o") @@
    ("P" :> "p") @@ ("Q" :> "q") @@ ("R" :> "r") @@ ("S" :> "s") @@ ("T" :> "t") @@
    ("U" :> "u") @@ ("V" :> "v") @@ ("W" :> "w") @@ ("X" :> "x") @@ ("Y" :> "y") @@
    ("Z" :> "z")

\* str.lower() on the characters of a string
Lower(s) == [i \in 1..Len(s) |-> IF s[i] \in DOMAIN LowerOf THEN LowerOf[s[i]] ELSE s[i]]

Digits == <<"0", "1", "2", "3", "4", "5", "6", "7", "8", "9">>

RECURSIVE StrOfNat(_)
StrOfNat(n) ==
    IF n < 10 THEN <<Digits[n + 1]>>
    ELSE StrOfNat(n \div 10) \o <<Digits[(n % 10) + 1]>>

-----------------------------------------------------------------------------
(* The unified release record *)

\* utcnow_iso(): the clock is not modelled, every reading is the same text
utcnow_iso == Str(<<"t">>)

\* Keyword arguments a caller may leave out, with the defaults of the signature
Default(kwargs, name, default) == Get(kwargs, name, default)

\* unreeled_ingest.make_release; kwargs holds the optional arguments given
make_release(source, media_type, title, release_date, kwargs) ==
    [source         |-> source,
     media_type     |-> media_type,
     title          |-> title,
     release_date   |-> release_date,
     synopsis       |-> Default(kwargs, "synopsis", EmptyStr),
     genres         |-> Or(Default(kwargs, "genres", JNull), EmptyList),
     metadata       |-> Or(Default(kwargs, "metadata", JNull), EmptyDict),
     poster_url     |-> Default(kwargs, "poster_url", EmptyStr),
     external_ids   |-> Or(Default(kwargs, "external_ids", JNull), EmptyDict),
     ingested_at    |-> utcnow_iso,
     comment_count  |-> Num(0),
     spoiler_counts |-> Dict(("light" :> Num(0)) @@ ("medium" :> Num(0)) @@ ("heavy" :> Num(0)))]

\* unreeled_sources_v5.safe_str
safe_str(val) ==
    CASE val.k = "null" -> EmptyStr
      [] val.k = "str"  -> val
      [] val.k = "num"  -> Str(StrOfNat(val.n))

\* unreeled_sources_v5.make_release
make_release_v5(source, media_type, title, release_date, kwargs) ==
    [source         |-> source,
     media_type     |-> media_type,
     title          |-> title,
     release_date   |-> release_date,
     synopsis       |-> safe_str(Default(kwargs, "synopsis", EmptyStr)),
     genres         |-> Or(Default(kwargs, "genres", JNull), EmptyList),
     metadata       |-> Or(Default(kwargs, "metadata", JNull), EmptyDict),
     poster_url     |-> safe_str(Default(kwargs, "poster_url", EmptyStr)),
     external_ids   |-> Or(Default(kwargs, "external_ids", JNull), EmptyDict),
     ingested_at    |-> utcnow_iso,
     comment_count  |-> Num(0),
     spoiler_counts |-> Dict(("light" :> Num(0)) @@ ("medium" :> Num(0)) @@ ("heavy" :> Num(0)))]

-----------------------------------------------------------------------------
(* HTTP *)

\* One exchange: st is the status code as text, or "exc" when requests raises
\* (timeout, connection error); json is the decoded body
Resp(st, json) == [st |-> st, json |-> json]

\* The answer to the n-th request of a kind: streams are read cyclically
At(stream, n) == stream[((n - 1) % Len(stream)) + 1]

\* Range of a sequence
Range(s) == {s[i] : i \in 1..Len(s)}

\* What a fetch gives its caller: the list returned, or exc when it raised;
\* reqs counts the requests sent, self is the adapter object afterwards
Returned(recs, reqs, self) == [recs |-> recs, exc |-> FALSE, reqs |-> reqs, self |-> self]

Raised(reqs, self) == [recs |-> <<>>, exc |-> TRUE, reqs |-> reqs, self |-> self]

-----------------------------------------------------------------------------
(* TMDBSource *)

MIN_MOVIE_RUNTIME == 40

TMDB_MAX_PAGES == 5

TMDB_EXCLUDED_TV_GENRE_NAMES == {<<"T","a","l","k">>, <<"R","e","a","l","i","t","y">>, <<"N","e","w","s">>}

Unknown == Str(<<"U","n","k","n","o","w","n">>)

TMDB_IMAGE_BASE == <<"i","m","g",":">>

\* TMDBSource.__init__
TMDBSource(api_key) == [api_key |-> api_key, movie_genres |-> <<>>, tv_genres |-> <<>>]

\* TMDBSource._get: None on a RequestException (raise_for_status included)
TMDB_get(resp) == IF resp.st = "200" THEN resp.json ELSE JNull

\* {g["id"]: g["name"] for g in data.get("genres", [])}
GenreMap(data) ==
    LET gs == Get(data.d, "genres", EmptyList).l
    IN  [n \in {gs[i].d["id"].n : i \in 1..Len(gs)} |->
            LET last == CHOOSE i \in 1..Len(gs) :
                            /\ gs[i].d["id"].n = n
                            /\ \A j \in i+1..Len(gs) : gs[j].d["id"].n # n
            IN  gs[last].d["name"]]

\* TMDBSource._load_genres: two requests, a failed one leaves its map as it was
TMDB_load_genres(self, remote, reqs) ==
    LET movie_data == TMDB_get(At(remote.genres, reqs.genre + 1))
        tv_data    == TMDB_get(At(remote.genres, reqs.genre + 2))
    IN  [self |-> [self EXCEPT
                     !.movie_genres = IF Truthy(movie_data) THEN GenreMap(movie_data) ELSE @,
                     !.tv_genres    = IF Truthy(tv_data) THEN GenreMap(tv_data) ELSE @],
         reqs |-> [reqs EXCEPT !.genre = @ + 2]]

\* TMDBSource._resolve_genres
TMDB_resolve_genres(self, genre_ids, media_type) ==
    LET genre_map == IF media_type = "movie" THEN self.movie_genres ELSE self.tv_genres
    IN  [i \in 1..Len(genre_ids) |-> Get(genre_map, genre_ids[i].n, Unknown)]

\* poster_url of a TMDB item
TMDB_poster(item) ==
    IF Truthy(Get(item.d, "poster_path", JNull))
    THEN Str(TMDB_IMAGE_BASE \o item.d["poster_path"].s)
    ELSE EmptyStr

\* A faulty TMDB_movie_item, for comparison: the runtime is compared with
\* MIN_MOVIE_RUNTIME the wrong way round
TMDB_movie_item_long_only(self, date, remote, st, movie) ==
    IF "id" \notin DOMAIN movie.d
    THEN [st EXCEPT !.exc = TRUE]                       \* movie['id']: KeyError
    ELSE
    LET details == TMDB_get(At(remote.details, st.reqs.detail + 1))
        reqs    == [st.reqs EXCEPT !.detail = @ + 1]
        runtime == IF Truthy(details) THEN Get(details.d, "runtime", Num(0)) ELSE Num(0)
    IN  IF Truthy(runtime) /\ runtime.n > MIN_MOVIE_RUNTIME
        THEN [st EXCEPT !.reqs = reqs]
        ELSE IF ~Truthy(Get(movie.d, "overview", JNull)) /\ ~Truthy(Get(movie.d, "poster_path", JNull))
        THEN [st EXCEPT !.reqs = reqs]
        ELSE [st EXCEPT
                !.reqs = reqs,
                !.releases = Append(@, make_release(
                    "tmdb", "movie",
                    Get(movie.d, "title", Unknown),
                    Get(movie.d, "release_date", date),
                    ("synopsis" :> Get(movie.d, "overview", EmptyStr)) @@
                    ("genres" :> List(TMDB_resolve_genres(self, Get(movie.d, "genre_ids", EmptyList).l, "movie"))) @@
                    ("metadata" :> Dict(
                        ("runtime_minutes" :> runtime) @@
                        ("popularity" :> Get(movie.d, "popularity", Num(0))) @@
                        ("vote_average" :> Get(movie.d, "vote_average", Num(0))))) @@
                    ("poster_url" :> TMDB_poster(movie)) @@
                    ("external_ids" :> Dict("tmdb_id" :> movie.d["id"]))))]

\* The body of "for movie in data.get('results', [])" for one movie.
\* st = [releases, reqs, exc]
TMDB_movie_item(self, date, remote, st, movie) ==
    IF "id" \notin DOMAIN movie.d
    THEN [st EXCEPT !.exc = TRUE]                       \* movie['id']: KeyError
    ELSE
    LET details == TMDB_get(At(remote.details, st.reqs.detail + 1))
        reqs    == [st.reqs EXCEPT !.detail = @ + 1]
        runtime == IF Truthy(details) THEN Get(details.d, "runtime", Num(0)) ELSE Num(0)
    IN  IF Truthy(runtime) /\ runtime.n < MIN_MOVIE_RUNTIME
        THEN [st EXCEPT !.reqs = reqs]
        ELSE IF ~Truthy(Get(movie.d, "overview", JNull)) /\ ~Truthy(Get(movie.d, "poster_path", JNull))
        THEN [st EXCEPT !.reqs = reqs]
        ELSE [st EXCEPT
                !.reqs = reqs,
                !.releases = Append(@, make_release(
                    "tmdb", "movie",
                    Get(movie.d, "title", Unknown),
                    Get(movie.d, "release_date", date),
                    ("synopsis" :> Get(movie.d, "overview", EmptyStr)) @@
                    ("genres" :> List(TMDB_resolve_genres(self, Get(movie.d, "genre_ids", EmptyList).l, "movie"))) @@
                    ("metadata" :> Dict(
                        ("runtime_minutes" :> runtime) @@
                        ("popularity" :> Get(movie.d, "popularity", Num(0))) @@
                        ("vote_average" :> Get(movie.d, "vote_average", Num(0))))) @@
                    ("poster_url" :> TMDB_poster(movie)) @@
                    ("external_ids" :> Dict("tmdb_id" :> movie.d["id"]))))]

\* The body of "for show in data.get('results', [])" for one show
TMDB_tv_item(self, date, remote, st, show) ==
    LET genres == TMDB_resolve_genres(self, Get(show.d, "genre_ids", EmptyList).l, "tv")
    IN  IF \E i \in 1..Len(genres) : genres[i].s \in TMDB_EXCLUDED_TV_GENRE_NAMES
        THEN st
        ELSE IF ~Truthy(Get(show.d, "overview", JNull)) /\ ~Truthy(Get(show.d, "poster_path", JNull))
        THEN st
        ELSE IF "id" \notin DOMAIN show.d
        THEN [st EXCEPT !.exc = TRUE]                   \* show['id']: KeyError
        ELSE
        LET details  == TMDB_get(At(remote.details, st.reqs.detail + 1))
            networks == IF Truthy(details) THEN Get(details.d, "networks", EmptyList) ELSE EmptyList
        IN  [st EXCEPT
                !.reqs.detail = @ + 1,
                !.releases = Append(@, make_release(
                    "tmdb", "tv",
                    Get(show.d, "name", Unknown),
                    Get(show.d, "first_air_date", date),
                    ("synopsis" :> Get(show.d, "overview", EmptyStr)) @@
                    ("genres" :> List(genres)) @@
                    ("metadata" :> Dict(
                        ("networks" :> networks) @@
                        ("popularity" :> Get(show.d, "popularity", Num(0))) @@
                        ("vote_average" :> Get(show.d, "vote_average", Num(0))) @@
                        ("episode_air_date" :> date))) @@
                    ("poster_url" :> TMDB_poster(show)) @@
                    ("external_ids" :> Dict("tmdb_id" :> show.d["id"]))))]

\* One item of a page, movie or show
TMDB_item(kind, self, date, remote, st, item) ==
    IF kind = "movie" THEN TMDB_movie_item(self, date, remote, st, item)
    ELSE TMDB_tv_item(self, date, remote, st, item)

\* The for loop over the results of one page, from item j on; an exception
\* ends it
RECURSIVE TMDB_results(_, _, _, _, _, _, _)
TMDB_results(kind, self, date, remote, st, results, j) ==
    IF st.exc \/ j > Len(results) THEN st
    ELSE TMDB_results(kind, self, date, remote,
                      TMDB_item(kind, self, date, remote, st, results[j]), results, j + 1)

\* A faulty TMDB_pages, for comparison: while page <= total_pages
RECURSIVE TMDB_pages_trusting(_, _, _, _, _, _, _)
TMDB_pages_trusting(kind, self, date, remote, st, page, total_pages) ==
    IF st.exc THEN st
    ELSE IF total_pages.k # "num" THEN [st EXCEPT !.exc = TRUE]
    ELSE IF ~(page <= total_pages.n) THEN st
    ELSE
    LET data == TMDB_get(At(remote.pages, st.reqs.list + 1))
        st1  == [st EXCEPT !.reqs.list = @ + 1]
    IN  IF ~Truthy(data) THEN st1
        ELSE LET results == Get(data.d, "results", EmptyList)
             IN  IF results.k # "list" THEN [st1 EXCEPT !.exc = TRUE]
                 ELSE TMDB_pages_trusting(kind, self, date, remote,
                                          TMDB_results(kind, self, date, remote, st1, results.l, 1),
                                          page + 1, Get(data.d, "total_pages", Num(1)))

\* while page <= min(total_pages, 5): one list request per turn
RECURSIVE TMDB_pages(_, _, _, _, _, _, _)
TMDB_pages(kind, self, date, remote, st, page, total_pages) ==
    IF st.exc THEN st
    ELSE IF total_pages.k # "num" THEN [st EXCEPT !.exc = TRUE]    \* min(None, 5): TypeError
    ELSE IF ~(page <= IF total_pages.n < TMDB_MAX_PAGES THEN total_pages.n ELSE TMDB_MAX_PAGES) THEN st
    ELSE
    LET data == TMDB_get(At(remote.pages, st.reqs.list + 1))
        st1  == [st EXCEPT !.reqs.list = @ + 1]
    IN  IF ~Truthy(data) THEN st1
        ELSE LET results == Get(data.d, "results", EmptyList)
             IN  IF results.k # "list" THEN [st1 EXCEPT !.exc = TRUE]   \* for ... in None: TypeError
                 ELSE TMDB_pages(kind, self, date, remote,
                                 TMDB_results(kind, self, date, remote, st1, results.l, 1),
                                 page + 1, Get(data.d, "total_pages", Num(1)))

NoReqs == [genre |-> 0, list |-> 0, detail |-> 0, auth |-> 0]

\* A faulty TMDB_fetch, for comparison: the test of the API key is missing
TMDB_fetch_keyless(kind, self, date, remote) ==
    LET cached == IF kind = "movie" THEN self.movie_genres ELSE self.tv_genres
        loaded == IF DOMAIN cached = {} THEN TMDB_load_genres(self, remote, NoReqs)
                  ELSE [self |-> self, reqs |-> NoReqs]
        st     == TMDB_pages(kind, loaded.self, date, remote,
                             [releases |-> <<>>, reqs |-> loaded.reqs, exc |-> FALSE],
                             1, Num(1))
    IN  IF st.exc THEN Raised(st.reqs, loaded.self)
        ELSE Returned(st.releases, st.reqs, loaded.self)

\* TMDBSource.fetch_movies and fetch_tv: the two differ in the genre map they
\* test and in the loop body
TMDB_fetch(kind, self, date, remote) ==
    IF ~Truthy(self.api_key) THEN Returned(<<>>, NoReqs, self)
    ELSE
    LET cached == IF kind = "movie" THEN self.movie_genres ELSE self.tv_genres
        loaded == IF DOMAIN cached = {} THEN TMDB_load_genres(self, remote, NoReqs)
                  ELSE [self |-> self, reqs |-> NoReqs]
        st     == TMDB_pages(kind, loaded.self, date, remote,
                             [releases |-> <<>>, reqs |-> loaded.reqs, exc |-> FALSE],
                             1, Num(1))
    IN  IF st.exc THEN Raised(st.reqs, loaded.self)
        ELSE Returned(st.releases, st.reqs, loaded.self)

fetch_movies(self, date, remote) == TMDB_fetch("movie", self, date, remote)

fetch_tv(self, date, remote) == TMDB_fetch("tv", self, date, remote)

-----------------------------------------------------------------------------
(* IGDBSource *)

IGDB_IMAGE_BASE == <<"c","o","v",":">>

\* IGDBSource.__init__
IGDBSource(client_id, client_secret) ==
    [client_id |-> client_id, client_secret |-> client_secret, access_token |-> JNull]

\* A faulty IGDB_authenticate, for comparison: it gives up only when both
\* halves of the credential are missing
IGDB_authenticate_both(self, remote, reqs) ==
    IF ~Truthy(self.client_id) /\ ~Truthy(self.client_secret)
    THEN [ok |-> FALSE, exc |-> FALSE, self |-> self, reqs |-> reqs]
    ELSE
    LET resp  == At(remote.auth, reqs.auth + 1)
        reqs1 == [reqs EXCEPT !.auth = @ + 1]
    IN  IF resp.st # "200"
        THEN [ok |-> FALSE, exc |-> FALSE, self |-> self, reqs |-> reqs1]
        ELSE IF resp.json.k # "dict" \/ "access_token" \notin DOMAIN resp.json.d
        THEN [ok |-> FALSE, exc |-> TRUE, self |-> self, reqs |-> reqs1]
        ELSE [ok |-> TRUE, exc |-> FALSE,
              self |-> [self EXCEPT !.access_token = resp.json.d["access_token"]],
              reqs |-> reqs1]

\* IGDBSource._authenticate: [ok, exc, self, reqs]; the token request is sent
\* on every call that has both credentials
IGDB_authenticate(self, remote, reqs) ==
    IF ~Truthy(self.client_id) \/ ~Truthy(self.client_secret)
    THEN [ok |-> FALSE, exc |-> FALSE, self |-> self, reqs |-> reqs]
    ELSE
    LET resp  == At(remote.auth, reqs.auth + 1)
        reqs1 == [reqs EXCEPT !.auth = @ + 1]
    IN  IF resp.st # "200"
        THEN [ok |-> FALSE, exc |-> FALSE, self |-> self, reqs |-> reqs1]
        ELSE IF resp.json.k # "dict" \/ "access_token" \notin DOMAIN resp.json.d
        THEN [ok |-> FALSE, exc |-> TRUE, self |-> self, reqs |-> reqs1]   \* data["access_token"]
        ELSE [ok |-> TRUE, exc |-> FALSE,
              self |-> [self EXCEPT !.access_token = resp.json.d["access_token"]],
              reqs |-> reqs1]

\* IGDBSource._query: [val, exc]; len(result) raises on a body without a length
IGDB_query(resp) ==
    IF resp.st # "200" THEN [val |-> JNull, exc |-> FALSE]
    ELSE IF resp.json.k \in {"null", "num"} THEN [val |-> JNull, exc |-> TRUE]
    ELSE [val |-> resp.json, exc |-> FALSE]

\* {x[key]: x[val] for x in rows}, the last row of a key winning
IdMap(rows, key, val) ==
    [n \in {rows[i].d[key].n : i \in 1..Len(rows)} |->
        LET last == CHOOSE i \in 1..Len(rows) :
                        /\ rows[i].d[key].n = n
                        /\ \A j \in i+1..Len(rows) : rows[j].d[key].n # n
        IN  rows[last].d[val]]

\* The ids a list of games names under a field holding a list of ids
IdsUnder(results, field) ==
    UNION {Range(Get(results[i].d, field, EmptyList).l) : i \in 1..Len(results)}

\* [names[x] for x in ids if x in names]
RECURSIVE Resolved(_, _)
Resolved(ids, names) ==
    IF ids = <<>> THEN <<>>
    ELSE (IF Head(ids).n \in DOMAIN names THEN <<names[Head(ids).n]>> ELSE <<>>)
         \o Resolved(Tail(ids), names)

\* Step 5 of fetch_games: one release per game of results
IGDB_release(game, date, covers, genre_names, platform_names) ==
    LET game_id        == Get(game.d, "id", Num(0))
        cover_image_id == Get(covers, game_id.n, EmptyStr)
    IN  make_release(
            "igdb", "game",
            Get(game.d, "name", Unknown),
            date,
            ("synopsis" :> Get(game.d, "summary", EmptyStr)) @@
            ("genres" :> List(Resolved(Get(game.d, "genres", EmptyList).l, genre_names))) @@
            ("metadata" :> Dict(
                ("platforms" :> List(Resolved(Get(game.d, "platforms", EmptyList).l, platform_names))) @@
                ("rating" :> Get(game.d, "rating", Num(0))))) @@
            ("poster_url" :> IF Truthy(cover_image_id)
                             THEN Str(IGDB_IMAGE_BASE \o cover_image_id.s) ELSE EmptyStr) @@
            ("external_ids" :> Dict("igdb_id" :> game_id)))

\* Steps 2 to 5 of fetch_games, results being a non-empty list
IGDB_build(self, date, remote, reqs, results) ==
    LET has_covers == \E i \in 1..Len(results) : Truthy(Get(results[i].d, "cover", JNull))
        cq         == IF has_covers THEN IGDB_query(At(remote.details, reqs.detail + 1))
                      ELSE [val |-> JNull, exc |-> FALSE]
        n1         == reqs.detail + (IF has_covers THEN 1 ELSE 0)
        genre_ids  == IdsUnder(results, "genres")
        gq         == IF genre_ids # {} THEN IGDB_query(At(remote.details, n1 + 1))
                      ELSE [val |-> JNull, exc |-> FALSE]
        n2         == n1 + (IF genre_ids # {} THEN 1 ELSE 0)
        plat_ids   == IdsUnder(results, "platforms")
        pq         == IF plat_ids # {} THEN IGDB_query(At(remote.details, n2 + 1))
                      ELSE [val |-> JNull, exc |-> FALSE]
        n3         == n2 + (IF plat_ids # {} THEN 1 ELSE 0)
        covers     == IF Truthy(cq.val)
                      THEN IdMap(SelectSeq(cq.val.l, LAMBDA c : Truthy(Get(c.d, "game", JNull))),
                                 "game", "image_id")
                      ELSE <<>>
        genres     == IF Truthy(gq.val) THEN IdMap(gq.val.l, "id", "name") ELSE <<>>
        platforms  == IF Truthy(pq.val) THEN IdMap(pq.val.l, "id", "name") ELSE <<>>
    IN  IF cq.exc THEN Raised([reqs EXCEPT !.detail = n1], self)
        ELSE IF gq.exc THEN Raised([reqs EXCEPT !.detail = n2], self)
        ELSE IF pq.exc THEN Raised([reqs EXCEPT !.detail = n3], self)
        ELSE Returned([i \in 1..Len(results) |->
                          IGDB_release(results[i], date, covers, genres, platforms)],
                      [reqs EXCEPT !.detail = n3], self)

\* IGDBSource.fetch_games
IGDB_fetch_games(self, date, remote) ==
    LET auth == IGDB_authenticate(self, remote, NoReqs)
    IN  IF auth.exc THEN Raised(auth.reqs, auth.self)
        ELSE IF ~auth.ok THEN Returned(<<>>, auth.reqs, auth.self)
        ELSE
        LET q1    == IGDB_query(At(remote.pages, 1))
            wide  == ~q1.exc /\ ~Truthy(q1.val)
            q2    == IF wide THEN IGDB_query(At(remote.pages, 2)) ELSE q1
            reqs  == [auth.reqs EXCEPT !.list = IF wide THEN 2 ELSE 1]
        IN  IF q2.exc THEN Raised(reqs, auth.self)
            ELSE IF ~Truthy(q2.val) THEN Returned(<<>>, reqs, auth.self)
            ELSE IGDB_build(auth.self, date, remote, reqs, q2.val.l)

-----------------------------------------------------------------------------
(* JikanSource *)

JIKAN_MAX_PAGES == 3

\* [g["name"] for g in rows]: exc when a row has no name
Names(rows) ==
    IF \E i \in 1..Len(rows) : "name" \notin DOMAIN rows[i].d
    THEN [val |-> <<>>, exc |-> TRUE]
    ELSE [val |-> [i \in 1..Len(rows) |-> rows[i].d["name"]], exc |-> FALSE]

\* The body of "for anime in items" for one item; st = [releases, reqs, exc]
Jikan_item(date, st, anime) ==
    LET images == Get(anime.d, "images", EmptyDict)
    IN  IF images.k # "dict" THEN [st EXCEPT !.exc = TRUE]          \* None.get
        ELSE
        LET jpg == Get(images.d, "jpg", EmptyDict)
        IN  IF jpg.k # "dict" THEN [st EXCEPT !.exc = TRUE]
            ELSE
            LET image_url == Get(jpg.d, "large_image_url", Get(jpg.d, "image_url", EmptyStr))
                genres    == Names(Get(anime.d, "genres", EmptyList).l)
                themes    == Names(Get(anime.d, "themes", EmptyList).l)
            IN  IF genres.exc \/ themes.exc THEN [st EXCEPT !.exc = TRUE]   \* g["name"]
                ELSE [st EXCEPT !.releases = Append(@, make_release(
                        "jikan", "anime",
                        Get(anime.d, "title", Unknown),
                        date,
                        ("synopsis" :> Get(anime.d, "synopsis", EmptyStr)) @@
                        ("genres" :> List(genres.val \o themes.val)) @@
                        ("metadata" :> Dict(
                            ("status" :> Get(anime.d, "status", EmptyStr)) @@
                            ("score" :> Get(anime.d, "score", Num(0))))) @@
                        ("poster_url" :> image_url) @@
                        ("external_ids" :> Dict("mal_id" :> Get(anime.d, "mal_id", Num(0))))))]

RECURSIVE Jikan_items(_, _, _, _)
Jikan_items(date, st, items, j) ==
    IF st.exc \/ j > Len(items) THEN st
    ELSE Jikan_items(date, Jikan_item(date, st, items[j]), items, j + 1)

\* while page <= 3: one request per turn
\* A faulty Jikan_pages, for comparison: a request that fails is not caught
RECURSIVE Jikan_pages_uncaught(_, _, _, _)
Jikan_pages_uncaught(date, remote, st, page) ==
    IF st.exc \/ ~(page <= JIKAN_MAX_PAGES) THEN st
    ELSE
    LET resp == At(remote.pages, st.reqs.list + 1)
        st1  == [st EXCEPT !.reqs.list = @ + 1]
    IN  IF resp.st # "200" THEN [st1 EXCEPT !.exc = TRUE]
        ELSE IF resp.json.k # "dict" THEN [st1 EXCEPT !.exc = TRUE]
        ELSE
        LET items == Get(resp.json.d, "data", EmptyList)
        IN  IF ~Truthy(items) THEN st1
            ELSE
            LET st2        == Jikan_items(date, st1, items.l, 1)
                pagination == Get(resp.json.d, "pagination", EmptyDict)
            IN  IF st2.exc THEN st2
                ELSE IF pagination.k # "dict" THEN [st2 EXCEPT !.exc = TRUE]
                ELSE IF ~Truthy(Get(pagination.d, "has_next_page", Bool(FALSE))) THEN st2
                ELSE Jikan_pages_uncaught(date, remote, st2, page + 1)

RECURSIVE Jikan_pages(_, _, _, _)
Jikan_pages(date, remote, st, page) ==
    IF st.exc \/ ~(page <= JIKAN_MAX_PAGES) THEN st
    ELSE
    LET resp == At(remote.pages, st.reqs.list + 1)
        st1  == [st EXCEPT !.reqs.list = @ + 1]
    IN  IF resp.st # "200" THEN st1                                  \* RequestException: break
        ELSE IF resp.json.k # "dict" THEN [st1 EXCEPT !.exc = TRUE]  \* data.get on a non-dict
        ELSE
        LET items == Get(resp.json.d, "data", EmptyList)
        IN  IF ~Truthy(items) THEN st1
            ELSE
            LET st2        == Jikan_items(date, st1, items.l, 1)
                pagination == Get(resp.json.d, "pagination", EmptyDict)
            IN  IF st2.exc THEN st2
                ELSE IF pagination.k # "dict" THEN [st2 EXCEPT !.exc = TRUE]
                ELSE IF ~Truthy(Get(pagination.d, "has_next_page", Bool(FALSE))) THEN st2
                ELSE Jikan_pages(date, remote, st2, page + 1)

\* A faulty Jikan_unique, for comparison: of the records of one id the last
\* is kept
RECURSIVE Jikan_unique_latest(_, _)
Jikan_unique_latest(releases, seen_ids) ==
    IF releases = <<>> THEN <<>>
    ELSE LET mal_id == Get(releases[Len(releases)].external_ids.d, "mal_id", Num(0))
             front  == SubSeq(releases, 1, Len(releases) - 1)
         IN  IF mal_id \in seen_ids THEN Jikan_unique_latest(front, seen_ids)
             ELSE Jikan_unique_latest(front, seen_ids \cup {mal_id}) \o <<releases[Len(releases)]>>

\* Deduplicate by MAL id, the first record of an id kept
RECURSIVE Jikan_unique(_, _)
Jikan_unique(releases, seen_ids) ==
    IF releases = <<>> THEN <<>>
    ELSE LET mal_id == Get(Head(releases).external_ids.d, "mal_id", Num(0))
         IN  IF mal_id \in seen_ids THEN Jikan_unique(Tail(releases), seen_ids)
             ELSE <<Head(releases)>> \o Jikan_unique(Tail(releases), seen_ids \cup {mal_id})

\* JikanSource.fetch_anime
fetch_anime(date, remote) ==
    LET st == Jikan_pages(date, remote, [releases |-> <<>>, reqs |-> NoReqs, exc |-> FALSE], 1)
    IN  IF st.exc THEN Raised(st.reqs, JNull)
        ELSE LET unique == Jikan_unique(st.releases, {})
             IN  Returned(unique, st.reqs, JNull)
                 @@ [dupes_removed |-> Len(st.releases) - Len(unique)]

-----------------------------------------------------------------------------
(* MusicBrainzSource *)

MUSIC_PAGE_SIZE == 100

MUSIC_MAX_RESULTS == 300

MUSIC_COVER_ART_LIMIT == 80

INCLUDE_SINGLES == FALSE

\* str.strip() with the space as the only whitespace
RECURSIVE LStrip(_)
LStrip(s) == IF s # <<>> /\ Head(s) = " " THEN LStrip(Tail(s)) ELSE s

RECURSIVE RStrip(_)
RStrip(s) == IF s # <<>> /\ s[Len(s)] = " " THEN RStrip(SubSeq(s, 1, Len(s) - 1)) ELSE s

Strip(s) == RStrip(LStrip(s))

\* tuple(sorted(names)): two sorted tuples are equal exactly when the lists hold
\* the same names the same number of times, so the key is that bag
SortedTuple(names) ==
    [x \in Range(names) |-> Cardinality({i \in 1..Len(names) : names[i] = x})]

\* A faulty MB_get, for comparison: the retry is sent without the longer
\* wait
MB_get_hasty(remote, n) ==
    LET r1 == At(remote.pages, n + 1)
        r2 == At(remote.pages, n + 2)
    IN  IF r1.st = "exc" THEN [val |-> JNull, used |-> 1, events |-> <<"request">>]
        ELSE IF r1.st = "503"
        THEN [val |-> IF r2.st = "200" THEN r2.json ELSE JNull, used |-> 2,
              events |-> <<"request", "sleep 1.1", "request">>]
        ELSE [val |-> IF r1.st = "200" THEN r1.json ELSE JNull, used |-> 1,
              events |-> <<"request", "sleep 1.1">>]

\* MusicBrainzSource._get from the n-th request on: [val, used, events]; a 503
\* is followed by one more request; events lists the requests and the sleeps
\* of the call in their order
MB_get(remote, n) ==
    LET r1 == At(remote.pages, n + 1)
        r2 == At(remote.pages, n + 2)
    IN  IF r1.st = "exc" THEN [val |-> JNull, used |-> 1, events |-> <<"request">>]
        ELSE IF r1.st = "503"
        THEN [val |-> IF r2.st = "200" THEN r2.json ELSE JNull, used |-> 2,
              events |-> <<"request", "sleep 1.1", "sleep 5", "request">>]
        ELSE [val |-> IF r1.st = "200" THEN r1.json ELSE JNull, used |-> 1,
              events |-> <<"request", "sleep 1.1">>]

\* The names of an artist-credit list
RECURSIVE MB_artists(_)
MB_artists(artist_credit) ==
    IF artist_credit = <<>> THEN <<>>
    ELSE LET ac     == Head(artist_credit)
             artist == Get(ac.d, "artist", EmptyDict)
             name   == Or(Get(ac.d, "name", EmptyStr), Get(artist.d, "name", EmptyStr))
         IN  (IF Truthy(name) THEN <<name>> ELSE <<>>) \o MB_artists(Tail(artist_credit))

\* The body of "for rel in release_list" for one release
MB_item(date, st, rel) ==
    LET artists      == MB_artists(Get(rel.d, "artist-credit", EmptyList).l)
        title        == Get(rel.d, "title", EmptyStr)
        primary_type == Get(Get(rel.d, "release-group", EmptyDict).d, "primary-type", EmptyStr)
        mbid         == Get(rel.d, "id", EmptyStr)
    IN  IF ~Truthy(title) THEN st
        ELSE [st EXCEPT !.releases = Append(@, make_release(
                "musicbrainz", "music",
                title,
                Get(rel.d, "date", date),
                ("synopsis" :> EmptyStr) @@
                ("genres" :> List(IF Truthy(primary_type) THEN <<primary_type>> ELSE <<>>)) @@
                ("metadata" :> Dict(
                    ("artists" :> List(artists)) @@
                    ("release_type" :> primary_type) @@
                    ("mbid" :> mbid))) @@
                ("poster_url" :> EmptyStr) @@
                ("external_ids" :> Dict("musicbrainz_id" :> mbid))))]

RECURSIVE MB_items(_, _, _, _)
MB_items(date, st, release_list, j) ==
    IF j > Len(release_list) THEN st
    ELSE MB_items(date, MB_item(date, st, release_list[j]), release_list, j + 1)

\* while offset < max_results; st.offsets lists the offsets asked for
RECURSIVE MB_pages(_, _, _, _)
MB_pages(date, remote, st, offset) ==
    IF st.exc \/ ~(offset < MUSIC_MAX_RESULTS) THEN st
    ELSE
    LET got == MB_get(remote, st.reqs.list)
        st1 == [st EXCEPT !.reqs.list = @ + got.used, !.offsets = Append(@, offset),
                          !.events = @ \o got.events]
    IN  IF ~Truthy(got.val) THEN st1
        ELSE
        LET release_list == Get(got.val.d, "releases", EmptyList)
            total        == Get(got.val.d, "count", Num(0))
        IN  IF ~Truthy(release_list) THEN st1
            ELSE
            LET st2 == MB_items(date, st1, release_list.l, 1)
            IN  IF total.k # "num" THEN [st2 EXCEPT !.exc = TRUE]    \* offset >= None
                ELSE IF offset + MUSIC_PAGE_SIZE >= total.n THEN st2
                ELSE MB_pages(date, remote, st2, offset + MUSIC_PAGE_SIZE)

\* The key of the title + artist deduplication
MB_key(r) ==
    <<Strip(Lower(r.title.s)), SortedTuple(Get(r.metadata.d, "artists", EmptyList).l)>>

RECURSIVE MB_unique(_, _)
MB_unique(releases, seen) ==
    IF releases = <<>> THEN <<>>
    ELSE IF MB_key(Head(releases)) \in seen THEN MB_unique(Tail(releases), seen)
    ELSE <<Head(releases)>> \o MB_unique(Tail(releases), seen \cup {MB_key(Head(releases))})

\* The singles filter
MB_not_single(r) ==
    Lower(Get(r.metadata.d, "release_type", EmptyStr).s) # <<"s","i","n","g","l","e">>

\* MusicBrainzSource._get_cover_art
MB_get_cover_art(resp) ==
    IF resp.st # "200" THEN EmptyStr
    ELSE
    LET images == Get(resp.json.d, "images", EmptyList).l
        fronts == {i \in 1..Len(images) : Truthy(Get(images[i].d, "front", Bool(FALSE)))}
    IN  IF fronts # {}
        THEN LET image  == images[CHOOSE i \in fronts : \A j \in fronts : i <= j]
                 thumbs == Get(image.d, "thumbnails", EmptyDict)
             IN  Or(Or(Or(Get(thumbs.d, "500", EmptyStr), Get(thumbs.d, "large", EmptyStr)),
                       Get(thumbs.d, "small", EmptyStr)),
                    Get(image.d, "image", EmptyStr))
        ELSE IF images # <<>> THEN Get(images[1].d, "image", EmptyStr)
        ELSE EmptyStr

\* The cover-art pass over unique[:max_covers], from record j on; n counts
\* the cover requests sent
RECURSIVE MB_covers(_, _, _, _)
MB_covers(remote, unique, j, n) ==
    IF j > Len(unique) \/ j > MUSIC_COVER_ART_LIMIT THEN [recs |-> unique, n |-> n]
    ELSE IF ~Truthy(Get(unique[j].metadata.d, "mbid", EmptyStr))
    THEN MB_covers(remote, unique, j + 1, n)
    ELSE LET cover_url == MB_get_cover_art(At(remote.details, n + 1))
         IN  MB_covers(remote,
                       IF Truthy(cover_url)
                       THEN [unique EXCEPT ![j].poster_url = cover_url] ELSE unique,
                       j + 1, n + 1)

\* MusicBrainzSource.fetch_music
fetch_music(date, remote) ==
    LET st == MB_pages(date, remote,
                       [releases |-> <<>>, reqs |-> NoReqs, exc |-> FALSE, offsets |-> <<>>,
                        events |-> <<>>], 0)
    IN  IF st.exc \/ \E i \in 1..Len(st.releases) : st.releases[i].title.k # "str"
        THEN Raised(st.reqs, JNull) @@ [offsets |-> st.offsets, events |-> st.events]  \* r["title"].lower()
        ELSE
        LET unique   == MB_unique(st.releases, {})
            filtered == IF INCLUDE_SINGLES THEN unique ELSE SelectSeq(unique, MB_not_single)
            covered  == MB_covers(remote, filtered, 1, 0)
        IN  Returned(covered.recs, [st.reqs EXCEPT !.detail = covered.n], JNull)
            @@ [offsets |-> st.offsets, events |-> st.events]

-----------------------------------------------------------------------------
(* list.sort(key=..., reverse=True) *)

\* A faulty SortDesc, for comparison: descending, but the items of one key
\* come out in reverse
SortDesc_unstable(seq, keys) ==
    [p \in 1..Len(seq) |->
        seq[CHOOSE j \in 1..Len(seq) :
                Cardinality({i \in 1..Len(keys) : keys[i] > keys[j]})
                + Cardinality({i \in j..Len(keys) : keys[i] = keys[j]}) = p]]

\* The place of item j once the list is sorted descending by keys: after every
\* item of a greater key and after the earlier items of an equal key (list.sort
\* is stable, and stays so under reverse=True)
RankDesc(keys, j) ==
    Cardinality({i \in 1..Len(keys) : keys[i] > keys[j]})
    + Cardinality({i \in 1..j : keys[i] = keys[j]})

\* seq sorted by keys (keys[i] the integer key of seq[i]), descending, stable
SortDesc(seq, keys) ==
    [p \in 1..Len(seq) |-> seq[CHOOSE j \in 1..Len(seq) : RankDesc(keys, j) = p]]

\* Comparing the keys raises TypeError when a key is not a number and the list
\* has two items or more
SortRaises(keyvals) ==
    Len(keyvals) >= 2 /\ \E i \in 1..Len(keyvals) : keyvals[i].k # "num"

-----------------------------------------------------------------------------
(* OpenLibrarySource *)

OL_SUBJECTS == 12

OL_MAX_ENRICHMENTS == 60

ALLOWED_LANGUAGES == {<<"e","n","g">>, <<"e","n">>}

MonthName ==
    << <<"J","a","n","u","a","r","y">>, <<"F","e","b","r","u","a","r","y">>,
       <<"M","a","r","c","h">>, <<"A","p","r","i","l">>, <<"M","a","y">>,
       <<"J","u","n","e">>, <<"J","u","l","y">>, <<"A","u","g","u","s","t">>,
       <<"S","e","p","t","e","m","b","e","r">>, <<"O","c","t","o","b","e","r">>,
       <<"N","o","v","e","m","b","e","r">>, <<"D","e","c","e","m","b","e","r">> >>

DigitVal(c) == (CHOOSE i \in 1..10 : Digits[i] = c) - 1

IsDigit(c) == c \in Range(Digits)

\* int() of a string of digits
RECURSIVE ParseNat(_)
ParseNat(s) == IF s = <<>> THEN 0 ELSE 10 * ParseNat(SubSeq(s, 1, Len(s) - 1)) + DigitVal(s[Len(s)])

\* needle in hay
Contains(hay, needle) ==
    \E i \in 0..(Len(hay) - Len(needle)) : SubSeq(hay, i + 1, i + Len(needle)) = needle

\* datetime.strptime(date, "%Y-%m-%d") succeeds on YYYY-MM-DD with a month
\* 01..12 and a day 01..31
ValidDate(date) ==
    /\ date.k = "str"
    /\ Len(date.s) = 10
    /\ \A i \in {1, 2, 3, 4, 6, 7, 9, 10} : IsDigit(date.s[i])
    /\ date.s[5] = "-" /\ date.s[8] = "-"
    /\ ParseNat(SubSeq(date.s, 6, 7)) \in 1..12
    /\ ParseNat(SubSeq(date.s, 9, 10)) \in 1..31

YearOf(date) == SubSeq(date.s, 1, 4)

MonthOf(date) == ParseNat(SubSeq(date.s, 6, 7))

\* OpenLibrarySource._search
OL_search(resp) == IF resp.st = "200" THEN resp.json ELSE JNull

\* OpenLibrarySource._fetch_synopsis, the work key being non-empty
OL_fetch_synopsis(resp) ==
    IF resp.st # "200" THEN EmptyStr
    ELSE
    LET desc0 == Get(resp.json.d, "description", EmptyStr)
        desc  == IF desc0.k = "dict" THEN Get(desc0.d, "value", EmptyStr) ELSE desc0
        fst0  == Get(resp.json.d, "first_sentence", EmptyStr)
        first == IF fst0.k = "dict" THEN Get(fst0.d, "value", EmptyStr) ELSE fst0
    IN  IF desc.k = "str" /\ desc.s # <<>> THEN desc
        ELSE IF first.k = "str" THEN first ELSE EmptyStr

\* A faulty OL_date_hit, for comparison: an edition date of the target year
\* but of another month is no hit
OL_date_hit_month_only(date, pd) ==
    LET year  == YearOf(date)
        month == MonthName[MonthOf(date)]
    IN  \/ Contains(Lower(pd.s), Lower(month \o <<" ">> \o year))
        \/ Contains(Lower(pd.s), Lower(SubSeq(month, 1, 3) \o <<" ">> \o year))

\* Whether an edition date names the target month or year
OL_date_hit(date, pd) ==
    LET year  == YearOf(date)
        month == MonthName[MonthOf(date)]
    IN  \/ Contains(Lower(pd.s), Lower(month \o <<" ">> \o year))
        \/ Contains(Lower(pd.s), Lower(SubSeq(month, 1, 3) \o <<" ">> \o year))
        \/ Contains(pd.s, year)

\* The body of "for doc in data.get('docs', [])" for one doc
OL_item(date, st, doc) ==
    LET pds0         == Get(doc.d, "publish_date", EmptyList)
        publish_dates == IF pds0.k = "str" THEN <<pds0>> ELSE pds0.l
        month_match  == \E i \in 1..Len(publish_dates) : OL_date_hit(date, publish_dates[i])
        year_match   == Get(doc.d, "first_publish_year", JNull) = Num(ParseNat(YearOf(date)))
        title        == Get(doc.d, "title", EmptyStr)
        languages    == Get(doc.d, "language", EmptyList)
        lang_ok      == IF languages.k = "list" /\ languages.l # <<>>
                        THEN \E i \in 1..Len(languages.l) : languages.l[i].s \in ALLOWED_LANGUAGES
                        ELSE IF languages.k = "str" THEN languages.s \in ALLOWED_LANGUAGES
                        ELSE TRUE
        fs           == Get(doc.d, "first_sentence", EmptyList)
        synopsis     == IF fs.k = "list" /\ fs.l # <<>>
                        THEN (IF fs.l[1].k = "str" THEN fs.l[1] ELSE EmptyStr)
                        ELSE IF fs.k = "str" THEN fs ELSE EmptyStr
    IN  IF \E i \in 1..Len(publish_dates) : publish_dates[i].k # "str"
        THEN [st EXCEPT !.exc = TRUE]                                  \* pd.lower()
        ELSE IF ~month_match /\ ~year_match THEN st
        ELSE IF ~Truthy(title) THEN st
        ELSE IF ~lang_ok THEN st
        ELSE [st EXCEPT !.releases = Append(@, make_release(
                "open_library", "book",
                title,
                IF month_match THEN date ELSE Str(YearOf(date)),
                ("synopsis" :> synopsis) @@
                ("genres" :> EmptyList) @@
                ("metadata" :> Dict(
                    ("authors" :> Get(doc.d, "author_name", EmptyList)) @@
                    ("ratings_count" :> Get(doc.d, "ratings_count", Num(0))) @@
                    ("open_library_key" :> Get(doc.d, "key", EmptyStr)))) @@
                ("poster_url" :> EmptyStr) @@
                ("external_ids" :> Dict("open_library_key" :> Get(doc.d, "key", EmptyStr)))))]

RECURSIVE OL_items(_, _, _, _)
OL_items(date, st, docs, j) ==
    IF st.exc \/ j > Len(docs) THEN st
    ELSE OL_items(date, OL_item(date, st, docs[j]), docs, j + 1)

\* for subject in subjects: one search per subject
RECURSIVE OL_subjects(_, _, _, _)
OL_subjects(date, remote, st, subject) ==
    IF st.exc \/ subject > OL_SUBJECTS THEN st
    ELSE
    LET data == OL_search(At(remote.pages, st.reqs.list + 1))
        st1  == [st EXCEPT !.reqs.list = @ + 1]
    IN  IF ~Truthy(data) THEN OL_subjects(date, remote, st1, subject + 1)
        ELSE OL_subjects(date, remote,
                         OL_items(date, st1, Get(data.d, "docs", EmptyList).l, 1),
                         subject + 1)

\* The key of the title + authors deduplication
OL_key(r) ==
    <<Strip(Lower(r.title.s)), SortedTuple(Get(r.metadata.d, "authors", EmptyList).l)>>

\* A faulty OL_unique, for comparison: it remembers only the key of the
\* record before
RECURSIVE OL_unique_adjacent(_, _)
OL_unique_adjacent(releases, seen) ==
    IF releases = <<>> THEN <<>>
    ELSE IF OL_key(Head(releases)) \in seen THEN OL_unique_adjacent(Tail(releases), seen)
    ELSE <<Head(releases)>> \o OL_unique_adjacent(Tail(releases), {OL_key(Head(releases))})

RECURSIVE OL_unique(_, _)
OL_unique(releases, seen) ==
    IF releases = <<>> THEN <<>>
    ELSE IF OL_key(Head(releases)) \in seen THEN OL_unique(Tail(releases), seen)
    ELSE <<Head(releases)>> \o OL_unique(Tail(releases), seen \cup {OL_key(Head(releases))})

\* The synopsis pass, from record j on; n counts the work requests sent
RECURSIVE OL_enrich(_, _, _, _, _)
OL_enrich(remote, unique, j, enriched_count, n) ==
    IF j > Len(unique) \/ enriched_count >= OL_MAX_ENRICHMENTS THEN [recs |-> unique, n |-> n]
    ELSE IF Truthy(unique[j].synopsis)
            \/ ~Truthy(Get(unique[j].external_ids.d, "open_library_key", EmptyStr))
    THEN OL_enrich(remote, unique, j + 1, enriched_count, n)
    ELSE LET synopsis == OL_fetch_synopsis(At(remote.details, n + 1))
         IN  IF Truthy(synopsis)
             THEN OL_enrich(remote, [unique EXCEPT ![j].synopsis = synopsis],
                            j + 1, enriched_count + 1, n + 1)
             ELSE OL_enrich(remote, unique, j + 1, enriched_count, n + 1)

\* OpenLibrarySource.fetch_books
fetch_books(date, remote) ==
    IF ~ValidDate(date) THEN Raised(NoReqs, JNull)                     \* strptime: ValueError
    ELSE
    LET st == OL_subjects(date, remote, [releases |-> <<>>, reqs |-> NoReqs, exc |-> FALSE], 1)
    IN  IF st.exc \/ \E i \in 1..Len(st.releases) : st.releases[i].title.k # "str"
        THEN Raised(st.reqs, JNull)
        ELSE
        LET unique  == OL_unique(st.releases, {})
            keyvals == [i \in 1..Len(unique) |-> Get(unique[i].metadata.d, "ratings_count", Num(0))]
        IN  IF SortRaises(keyvals) THEN Raised(st.reqs, JNull)
            ELSE
            LET sorted   == SortDesc(unique, [i \in 1..Len(unique) |-> keyvals[i].n])
                enriched == OL_enrich(remote, sorted, 1, 0, 0)
            IN  Returned(enriched.recs, [st.reqs EXCEPT !.detail = enriched.n], JNull)

-----------------------------------------------------------------------------
(* unreeled_sources_v5: the sources.  Each wraps its requests and its item *)
(* loop in one try/except Exception: an exception ends the loop and the    *)
(* records appended so far are kept.                                       *)

PODCAST_MAX_FEEDS == 25

PODCAST_MAX_EPISODES == 15

NEWS_POPULARITY == 80

COMIC_POPULARITY == 50

\* items[:n]
Prefix(items, n) == SubSeq(items, 1, IF Len(items) < n THEN Len(items) ELSE n)

\* PodcastIndexSource.__init__
PodcastIndexSource(api_key, api_secret) == [api_key |-> api_key, api_secret |-> api_secret]

\* One trending feed: [rec, skip, exc]
Podcast_feed(date, feed) ==
    IF feed.k # "dict" THEN [exc |-> TRUE, skip |-> FALSE, rec |-> JNull]
    ELSE LET title == safe_str(Get(feed.d, "title", JNull))
         IN  IF ~Truthy(title) THEN [exc |-> FALSE, skip |-> TRUE, rec |-> JNull]
             ELSE [exc |-> FALSE, skip |-> FALSE, rec |->
                   make_release_v5("podcast_index", "podcast", title, date,
                       ("synopsis" :> safe_str(Get(feed.d, "description", EmptyStr))) @@
                       ("genres" :> EmptyList) @@
                       ("metadata" :> Dict(
                           ("author" :> safe_str(Get(feed.d, "author", JNull))) @@
                           ("popularity" :> Get(feed.d, "trendScore", Num(0))))) @@
                       ("poster_url" :> safe_str(Get(feed.d, "image", JNull))) @@
                       ("external_ids" :> Dict("podcast_index_id" :> Get(feed.d, "id", JNull))))]

\* One recent episode
Podcast_episode(date, ep) ==
    IF ep.k # "dict" THEN [exc |-> TRUE, skip |-> FALSE, rec |-> JNull]
    ELSE LET feed_title == safe_str(Get(ep.d, "feedTitle", JNull))
             ep_title   == safe_str(Get(ep.d, "title", JNull))
             full_title == IF Truthy(ep_title)
                           THEN Str(feed_title.s \o <<":", " ">> \o ep_title.s) ELSE feed_title
         IN  IF ~Truthy(feed_title) THEN [exc |-> FALSE, skip |-> TRUE, rec |-> JNull]
             ELSE [exc |-> FALSE, skip |-> FALSE, rec |->
                   make_release_v5("podcast_index", "podcast", full_title, date,
                       ("synopsis" :> safe_str(Get(ep.d, "description", EmptyStr))) @@
                       ("genres" :> EmptyList) @@
                       ("metadata" :> Dict(
                           ("author" :> safe_str(Get(ep.d, "feedAuthor", JNull))) @@
                           ("popularity" :> Num(0)))) @@
                       ("poster_url" :> safe_str(Or(Get(ep.d, "feedImage", JNull), Get(ep.d, "image", JNull)))) @@
                       ("external_ids" :> Dict("podcast_index_id" :> Get(ep.d, "feedId", JNull))))]

\* A loop body run over items inside a try: st = [releases, exc]; built[j] is
\* what the body makes of item j
RECURSIVE TryItems(_, _, _)
TryItems(st, built, j) ==
    IF st.exc \/ j > Len(built) THEN st
    ELSE IF built[j].exc THEN [st EXCEPT !.exc = TRUE]
    ELSE IF built[j].skip THEN TryItems(st, built, j + 1)
    ELSE TryItems([st EXCEPT !.releases = Append(@, built[j].rec)], built, j + 1)

\* The items a 200 answer lists under field: exc when the body or the field
\* is not what the loop can walk
Listed(resp, field) ==
    IF resp.json.k # "dict" THEN [exc |-> TRUE, l |-> <<>>]
    ELSE LET v == Get(resp.json.d, field, EmptyList)
         IN  IF v.k # "list" THEN [exc |-> TRUE, l |-> <<>>] ELSE [exc |-> FALSE, l |-> v.l]

\* title.lower().split(":")[0].strip()
BeforeColon(s) ==
    IF \E i \in 1..Len(s) : s[i] = ":"
    THEN SubSeq(s, 1, (CHOOSE i \in 1..Len(s) : s[i] = ":" /\ \A j \in 1..i-1 : s[j] # ":") - 1)
    ELSE s

Podcast_key(r) == Strip(BeforeColon(Lower(r.title.s)))

RECURSIVE Podcast_unique(_, _)
Podcast_unique(releases, seen) ==
    IF releases = <<>> THEN <<>>
    ELSE IF Podcast_key(Head(releases)) \in seen THEN Podcast_unique(Tail(releases), seen)
    ELSE <<Head(releases)>> \o Podcast_unique(Tail(releases), seen \cup {Podcast_key(Head(releases))})

\* The try block of fetch_podcasts: [releases, exc, n], n the requests sent
Podcast_try(date, remote) ==
    LET r1 == At(remote.pages, 1)
        r2 == At(remote.pages, 2)
        s0 == [releases |-> <<>>, exc |-> FALSE]
    IN  IF r1.st = "exc" THEN [releases |-> <<>>, n |-> 1]
        ELSE
        LET feeds == IF r1.st = "200" THEN Listed(r1, "feeds") ELSE [exc |-> FALSE, l |-> <<>>]
            s1    == IF feeds.exc THEN [s0 EXCEPT !.exc = TRUE]
                     ELSE TryItems(s0, [j \in 1..Len(Prefix(feeds.l, PODCAST_MAX_FEEDS)) |->
                                           Podcast_feed(date, feeds.l[j])], 1)
        IN  IF s1.exc \/ r2.st = "exc" THEN [releases |-> s1.releases, n |-> IF s1.exc THEN 1 ELSE 2]
            ELSE
            LET items == IF r2.st = "200" THEN Listed(r2, "items") ELSE [exc |-> FALSE, l |-> <<>>]
                s2    == IF items.exc THEN s1
                         ELSE TryItems(s1, [j \in 1..Len(Prefix(items.l, PODCAST_MAX_EPISODES)) |->
                                               Podcast_episode(date, items.l[j])], 1)
            IN  [releases |-> s2.releases, n |-> 2]

\* PodcastIndexSource.fetch_podcasts
fetch_podcasts(self, date, remote) ==
    IF ~Truthy(self.api_key) \/ ~Truthy(self.api_secret) THEN Returned(<<>>, NoReqs, self)
    ELSE LET t == Podcast_try(date, remote)
         IN  Returned(Podcast_unique(t.releases, {}), [NoReqs EXCEPT !.list = t.n], self)

\* BoardGameGeekSource.fetch_boardgames
fetch_boardgames(date) == Returned(<<>>, NoReqs, JNull)

\* One RAWG game
Rawg_game(date, game) ==
    IF game.k # "dict" THEN [exc |-> TRUE, skip |-> FALSE, rec |-> JNull]
    ELSE LET title == safe_str(Get(game.d, "name", JNull))
         IN  IF ~Truthy(title) THEN [exc |-> FALSE, skip |-> TRUE, rec |-> JNull]
             ELSE [exc |-> FALSE, skip |-> FALSE, rec |->
                   make_release_v5("rawg", "game", title, date,
                       ("synopsis" :> EmptyStr) @@
                       ("genres" :> EmptyList) @@
                       ("metadata" :> Dict(
                           ("rating" :> Get(game.d, "rating", Num(0))) @@
                           ("metacritic" :> Get(game.d, "metacritic", JNull)) @@
                           ("popularity" :> Get(game.d, "added", Num(0))))) @@
                       ("poster_url" :> safe_str(Get(game.d, "background_image", JNull))) @@
                       ("external_ids" :> Dict("rawg_id" :> Get(game.d, "id", JNull))))]

\* One NewsData article
News_article(date, article) ==
    IF article.k # "dict" THEN [exc |-> TRUE, skip |-> FALSE, rec |-> JNull]
    ELSE LET title == safe_str(Get(article.d, "title", JNull))
         IN  IF ~Truthy(title) THEN [exc |-> FALSE, skip |-> TRUE, rec |-> JNull]
             ELSE [exc |-> FALSE, skip |-> FALSE, rec |->
                   make_release_v5("newsdata", "news", title, date,
                       ("synopsis" :> safe_str(Get(article.d, "description", EmptyStr))) @@
                       ("genres" :> List(<<Str(<<"E","n","t">>)>>)) @@
                       ("metadata" :> Dict(
                           ("link" :> safe_str(Get(article.d, "link", JNull))) @@
                           ("popularity" :> Num(NEWS_POPULARITY)))) @@
                       ("poster_url" :> safe_str(Get(article.d, "image_url", JNull))) @@
                       ("external_ids" :> Dict("newsdata_id" :> Get(article.d, "article_id", JNull))))]

\* One Comic Vine issue
Comic_issue(date, issue) ==
    IF issue.k # "dict" THEN [exc |-> TRUE, skip |-> FALSE, rec |-> JNull]
    ELSE LET vol       == Or(Get(issue.d, "volume", JNull), EmptyDict)
             vol_name  == safe_str(Get(vol.d, "name", JNull))
             issue_num == safe_str(Get(issue.d, "issue_number", JNull))
             title     == IF Truthy(vol_name) /\ Truthy(issue_num)
                          THEN Str(vol_name.s \o <<" ", "#">> \o issue_num.s)
                          ELSE Or(vol_name, safe_str(Get(issue.d, "name", JNull)))
         IN  IF ~Truthy(title) THEN [exc |-> FALSE, skip |-> TRUE, rec |-> JNull]
             ELSE [exc |-> FALSE, skip |-> FALSE, rec |->
                   make_release_v5("comic_vine", "comic", title, date,
                       ("synopsis" :> EmptyStr) @@
                       ("genres" :> List(<<Str(<<"C","o","m","i","c","s">>)>>)) @@
                       ("metadata" :> Dict(
                           ("issue_number" :> issue_num) @@
                           ("volume" :> vol_name) @@
                           ("popularity" :> Num(COMIC_POPULARITY)))) @@
                       ("poster_url" :> EmptyStr) @@
                       ("external_ids" :> Dict("comic_vine_id" :> Get(issue.d, "id", JNull))))]

\* The loop body of the named source
Built(kind, date, item) ==
    CASE kind = "rawg"       -> Rawg_game(date, item)
      [] kind = "newsdata"   -> News_article(date, item)
      [] kind = "comic_vine" -> Comic_issue(date, item)

\* One request, then the item loop: the shape RAWG, NewsData and Comic Vine
\* share
OneRequestFetch(kind, api_key, date, resp) ==
    IF ~Truthy(api_key) THEN Returned(<<>>, NoReqs, JNull)
    ELSE
    LET reqs == [NoReqs EXCEPT !.list = 1]
    IN  IF resp.st # "200" THEN Returned(<<>>, reqs, JNull)
        ELSE LET rows == Listed(resp, "results")
             IN  IF rows.exc THEN Returned(<<>>, reqs, JNull)
                 ELSE Returned(TryItems([releases |-> <<>>, exc |-> FALSE],
                                        [j \in 1..Len(rows.l) |-> Built(kind, date, rows.l[j])],
                                        1).releases,
                               reqs, JNull)

\* RawgSource.fetch_games
Rawg_fetch_games(api_key, date, remote) == OneRequestFetch("rawg", api_key, date, At(remote.pages, 1))

\* NewsDataSource.fetch_news
fetch_news(api_key, date, remote) == OneRequestFetch("newsdata", api_key, date, At(remote.pages, 1))

\* ComicVineSource.fetch_comics
fetch_comics(api_key, date, remote) == OneRequestFetch("comic_vine", api_key, date, At(remote.pages, 1))

-----------------------------------------------------------------------------
(* unreeled_sources_v5: the enrichers.  st = [releases, enriched, lookups, *)
(* requests]: lookups is the counter the code keeps, requests counts every *)
(* requests.get the call makes, the ones that raise included.              *)

RottenTomatoes == <<"R","o","t","t","e","n"," ","T","o","m","a","t","o","e","s">>

Metacritic == <<"M","e","t","a","c","r","i","t","i","c">>

InternetMovieDatabase ==
    <<"I","n","t","e","r","n","e","t"," ","M","o","v","i","e"," ","D","a","t","a","b","a","s","e">>

TrueText == Str(<<"T","r","u","e">>)

ENRICH_RECS == 5

EnrichStart(releases) == [releases |-> releases, enriched |-> 0, lookups |-> 0, requests |-> 0]

\* The ratings dict OMDb's loop over data["Ratings"] builds, from rating j on
RECURSIVE OMDb_ratings(_, _, _)
OMDb_ratings(rows, j, ratings) ==
    IF j > Len(rows) THEN ratings
    ELSE LET src == Get(rows[j].d, "Source", EmptyStr)
             val == Get(rows[j].d, "Value", EmptyStr)
         IN  OMDb_ratings(rows, j + 1,
                 IF Contains(src.s, RottenTomatoes) THEN Put(ratings, "rotten_tomatoes", val)
                 ELSE IF Contains(src.s, Metacritic) THEN Put(ratings, "metacritic", val)
                 ELSE IF Contains(src.s, InternetMovieDatabase) THEN Put(ratings, "imdb", val)
                 ELSE ratings)

\* The body of OMDbEnricher.enrich's loop for record i, a movie or a show
OMDb_record(st, i, resp) ==
    LET r       == st.releases[i]
        imdb_id == Get(r.external_ids.d, "imdb_id", JNull)
        sent    == [st EXCEPT !.requests = @ + 1]
        counted == [sent EXCEPT !.lookups = @ + 1]
    IN  IF resp.st = "exc" THEN sent                               \* requests.get raised
        ELSE IF resp.st # "200" THEN counted
        ELSE IF resp.json.k # "dict" THEN counted                  \* data.get: caught
        ELSE IF Get(resp.json.d, "Response", JNull) # TrueText THEN counted
        ELSE
        LET rows    == Get(resp.json.d, "Ratings", EmptyList)
        IN  IF rows.k # "list" \/ \E j \in 1..Len(rows.l) : rows.l[j].k # "dict"
            THEN counted                                           \* caught
            ELSE
            LET ratings == OMDb_ratings(rows.l, 1, <<>>)
                imdbID  == Get(resp.json.d, "imdbID", JNull)
                rated   == IF DOMAIN ratings # {}
                           THEN [counted EXCEPT
                                   !.releases[i].metadata = Dict(Put(@.d, "ratings", Dict(ratings))),
                                   !.enriched = @ + 1]
                           ELSE counted
            IN  IF Truthy(imdbID) /\ ~Truthy(imdb_id)
                THEN [rated EXCEPT !.releases[i].external_ids = Dict(Put(@.d, "imdb_id", imdbID))]
                ELSE rated

\* A faulty OMDb_loop, for comparison: it looks up the records of every
\* media type
RECURSIVE OMDb_loop_any_type(_, _, _, _)
OMDb_loop_any_type(st, i, max_lookups, remote) ==
    IF i > Len(st.releases) \/ st.lookups >= max_lookups THEN st
    ELSE OMDb_loop_any_type(OMDb_record(st, i, At(remote.pages, st.requests + 1)),
                            i + 1, max_lookups, remote)

RECURSIVE OMDb_loop(_, _, _, _)
OMDb_loop(st, i, max_lookups, remote) ==
    IF i > Len(st.releases) \/ st.lookups >= max_lookups THEN st
    ELSE IF st.releases[i].media_type \notin {"movie", "tv"}
    THEN OMDb_loop(st, i + 1, max_lookups, remote)
    ELSE OMDb_loop(OMDb_record(st, i, At(remote.pages, st.requests + 1)), i + 1, max_lookups, remote)

\* OMDbEnricher.enrich
OMDb_enrich(api_key, releases, max_lookups, remote) ==
    IF ~Truthy(api_key) THEN EnrichStart(releases)
    ELSE OMDb_loop(EnrichStart(releases), 1, max_lookups, remote)

TD_TYPES == {"movie", "tv", "book", "music", "game"}

\* The body of TasteDiveEnricher.enrich's loop for record i of a mapped type
TasteDive_record(st, i, resp) ==
    LET sent    == [st EXCEPT !.requests = @ + 1]
        counted == [sent EXCEPT !.lookups = @ + 1]
    IN  IF resp.st = "exc" THEN sent
        ELSE IF resp.st # "200" THEN counted
        ELSE IF resp.json.k # "dict" THEN counted
        ELSE
        LET similar == Get(resp.json.d, "Similar", EmptyDict)
        IN  IF similar.k # "dict" THEN counted
            ELSE
            LET results == Get(similar.d, "Results", EmptyList)
            IN  IF ~Truthy(results) THEN counted
                ELSE IF \E j \in 1..Len(results.l) : results.l[j].k # "dict" THEN counted
                ELSE
                LET top  == Prefix(results.l, ENRICH_RECS)
                    recs == [j \in 1..Len(top) |-> safe_str(Get(top[j].d, "Name", JNull))]
                IN  [counted EXCEPT
                        !.releases[i].metadata = Dict(Put(@.d, "recommendations", List(recs))),
                        !.enriched = @ + 1]

RECURSIVE TasteDive_loop(_, _, _, _)
TasteDive_loop(st, i, max_lookups, remote) ==
    IF i > Len(st.releases) \/ st.lookups >= max_lookups THEN st
    ELSE IF st.releases[i].media_type \notin TD_TYPES
    THEN TasteDive_loop(st, i + 1, max_lookups, remote)
    ELSE TasteDive_loop(TasteDive_record(st, i, At(remote.pages, st.requests + 1)),
                        i + 1, max_lookups, remote)

\* TasteDiveEnricher.enrich
TasteDive_enrich(api_key, releases, max_lookups, remote) ==
    IF ~Truthy(api_key) THEN EnrichStart(releases)
    ELSE TasteDive_loop(EnrichStart(releases), 1, max_lookups, remote)

\* The streaming dict Watchmode's loop over sources builds, from source j on:
\* the first entry of a name is kept
RECURSIVE WM_streaming(_, _, _)
WM_streaming(sources, j, streaming) ==
    IF j > Len(sources) THEN streaming
    ELSE LET name == safe_str(Get(sources[j].d, "name", JNull))
         IN  WM_streaming(sources, j + 1,
                 IF Truthy(name) /\ name.s \notin DOMAIN streaming
                 THEN Put(streaming, name.s,
                          Dict(("type" :> safe_str(Get(sources[j].d, "type", JNull))) @@
                               ("url" :> safe_str(Get(sources[j].d, "web_url", JNull)))))
                 ELSE streaming)

\* The body of WatchmodeEnricher.enrich's loop for record i, a movie or a
\* show: a search request and, when it finds a title, a sources request.
\* st.searches and st.sources count the two kinds
Watchmode_record(st, i, search_resp, source_resp) ==
    LET sent1    == [st EXCEPT !.requests = @ + 1, !.searches = @ + 1]
        counted1 == [sent1 EXCEPT !.lookups = @ + 1]
    IN  IF search_resp.st = "exc" THEN sent1
        ELSE IF search_resp.st # "200" THEN counted1
        ELSE IF search_resp.json.k # "dict" THEN counted1
        ELSE
        LET results == Get(search_resp.json.d, "title_results", EmptyList)
        IN  IF ~Truthy(results) THEN counted1
            ELSE IF results.l[1].k # "dict" THEN counted1
            ELSE
            LET wm_id    == Get(results.l[1].d, "id", JNull)
                sent2    == [counted1 EXCEPT !.requests = @ + 1, !.sources = @ + 1]
                counted2 == [sent2 EXCEPT !.lookups = @ + 1]
            IN  IF ~Truthy(wm_id) THEN counted1
                ELSE IF source_resp.st = "exc" THEN sent2
                ELSE IF source_resp.st # "200" THEN counted2
                ELSE IF source_resp.json.k # "list" THEN counted2
                ELSE IF \E j \in 1..Len(source_resp.json.l) : source_resp.json.l[j].k # "dict"
                THEN counted2
                ELSE
                LET streaming == WM_streaming(source_resp.json.l, 1, <<>>)
                IN  IF DOMAIN streaming = {} THEN counted2
                    ELSE [counted2 EXCEPT
                            !.releases[i].metadata = Dict(Put(@.d, "streaming", Dict(streaming))),
                            !.releases[i].external_ids = Dict(Put(@.d, "watchmode_id", wm_id)),
                            !.enriched = @ + 1]

RECURSIVE Watchmode_loop(_, _, _, _)
Watchmode_loop(st, i, max_lookups, remote) ==
    IF i > Len(st.releases) \/ st.lookups >= max_lookups THEN st
    ELSE IF st.releases[i].media_type \notin {"movie", "tv"}
    THEN Watchmode_loop(st, i + 1, max_lookups, remote)
    ELSE Watchmode_loop(Watchmode_record(st, i, At(remote.pages, st.searches + 1),
                                         At(remote.details, st.sources + 1)),
                        i + 1, max_lookups, remote)

\* WatchmodeEnricher.enrich
Watchmode_enrich(api_key, releases, max_lookups, remote) ==
    IF ~Truthy(api_key) THEN EnrichStart(releases) @@ [searches |-> 0, sources |-> 0]
    ELSE Watchmode_loop(EnrichStart(releases) @@ [searches |-> 0, sources |-> 0],
                        1, max_lookups, remote)

-----------------------------------------------------------------------------
(* What the remote services answer.  A world gives, per kind of request,   *)
(* the stream of answers: genres, pages (list and search requests),        *)
(* details (per-item requests) and auth (token requests).                  *)

World(genres, pages, details, auth) ==
    [genres |-> genres, pages |-> pages, details |-> details, auth |-> auth]

Ok(json) == Resp("200", json)

Failed == Resp("exc", JNull)

TheDate == Str(<<"2","0","2","6","-","0","2","-","2","0">>)

Nova == <<"N","o","v","a">>

NovaLower == <<"n","o","v","a">>

Zed == <<"Z","e","d">>

Text == Str(<<"x">>)

GenresOk == Ok(Dict("genres" :> List(<<Dict(("id" :> Num(1)) @@ ("name" :> Str(<<"D","r","a","m","a">>)))>>)))

\* A raw TMDB movie or show; f holds the fields the item has
TmdbItem(f) == Dict(f @@ ("overview" :> Text) @@ ("genre_ids" :> List(<<Num(1)>>)))

TmdbPage(total_pages, results) ==
    Ok(Dict(("total_pages" :> total_pages) @@ ("results" :> List(results))))

MovieDetail(runtime) == Ok(Dict("runtime" :> runtime))

\* The answers a run of the pipeline may meet, per adapter.  A fetch that
\* meets Failed on its first request returns no record
MovieItem(id, title, popularity) ==
    TmdbItem(("id" :> Num(id)) @@ ("title" :> Str(title)) @@ ("popularity" :> popularity))

ShowItem(id, name, popularity) ==
    TmdbItem(("id" :> Num(id)) @@ ("name" :> Str(name)) @@ ("popularity" :> popularity))

TmdbWorld(results) ==
    World(<<GenresOk>>, <<TmdbPage(Num(1), results)>>, <<MovieDetail(Num(90))>>, <<Failed>>)

MovieWorlds ==
    { TmdbWorld(<<MovieItem(1, Nova, Num(10)), MovieItem(2, Zed, Num(30))>>),
      TmdbWorld(<<MovieItem(3, Zed, JNull)>>),
      TmdbWorld(<<TmdbItem("title" :> Str(Zed))>>),
      World(<<GenresOk>>, <<Failed>>, <<Failed>>, <<Failed>>) }

ShowWorlds ==
    { TmdbWorld(<<ShowItem(4, Nova, Num(30))>>),
      TmdbWorld(<<TmdbItem("name" :> Str(Zed))>>) }

BookDoc(f) == Dict(f @@ ("title" :> Str(Zed)) @@ ("author_name" :> List(<<Text>>)))

BookWorlds ==
    { World(<<Failed>>, <<Ok(Dict("docs" :> List(<<BookDoc("first_publish_year" :> Num(2026))>>)))>>,
            <<Failed>>, <<Failed>>),
      World(<<Failed>>, <<Ok(Dict("docs" :> List(<<BookDoc("publish_date" :> List(<<Num(2026)>>))>>)))>>,
            <<Failed>>, <<Failed>>) }

TokenOk == Ok(Dict("access_token" :> Text))

IgdbWorlds ==
    { World(<<Failed>>, <<Ok(List(<<Dict(("id" :> Num(5)) @@ ("name" :> Str(Nova)))>>))>>,
            <<Failed>>, <<TokenOk>>),
      World(<<Failed>>, <<Ok(List(<<Dict(("id" :> Num(6)) @@ ("name" :> JNull))>>))>>,
            <<Failed>>, <<TokenOk>>),
      World(<<Failed>>, <<Failed>>, <<Failed>>, <<Ok(EmptyDict)>>) }

AnimePage(items, has_next_page) ==
    Ok(Dict(("data" :> List(items)) @@ ("pagination" :> Dict("has_next_page" :> has_next_page))))

Anime(mal_id, f) == Dict(f @@ ("mal_id" :> Num(mal_id)) @@ ("title" :> Str(Zed)))

AnimeWorlds ==
    { World(<<Failed>>, <<Failed>>, <<Failed>>, <<Failed>>),
      World(<<Failed>>,
            <<AnimePage(<<Anime(7, "synopsis" :> Text), Anime(8, "synopsis" :> JNull)>>, Bool(FALSE))>>,
            <<Failed>>, <<Failed>>) }

Album(title, f) == Dict(f @@ ("id" :> Text) @@ ("title" :> Str(title)))

MusicPage(count, releases) == Ok(Dict(("count" :> count) @@ ("releases" :> List(releases))))

MusicWorlds ==
    { World(<<Failed>>, <<MusicPage(Num(1), <<Album(Zed, <<>>)>>)>>, <<Failed>>, <<Failed>>),
      World(<<Failed>>, <<MusicPage(JNull, <<Album(Zed, <<>>)>>)>>, <<Failed>>, <<Failed>>) }

PodcastWorlds ==
    { World(<<Failed>>,
            <<Ok(Dict("feeds" :> List(<<Dict(("id" :> Num(9)) @@ ("title" :> Str(Zed))
                                             @@ ("trendScore" :> Num(20)))>>))),
              Failed>>,
            <<Failed>>, <<Failed>>) }

RawgGame(id, name, added) == Dict(("id" :> Num(id)) @@ ("name" :> Str(name)) @@ ("added" :> added))

RawgWorlds ==
    { World(<<Failed>>, <<Ok(Dict("results" :> List(<<RawgGame(1, NovaLower, Num(5))>>)))>>,
            <<Failed>>, <<Failed>>),
      World(<<Failed>>,
            <<Ok(Dict("results" :> List(<<RawgGame(1, NovaLower, Num(5)), RawgGame(2, Zed, Num(30))>>)))>>,
            <<Failed>>, <<Failed>>),
      World(<<Failed>>, <<Resp("500", JNull)>>, <<Failed>>, <<Failed>>) }

NewsWorlds ==
    { World(<<Failed>>,
            <<Ok(Dict("results" :> List(<<Dict(("article_id" :> Text) @@ ("title" :> Str(Nova)))>>)))>>,
            <<Failed>>, <<Failed>>) }

OmdbAnswer(imdbID, value) ==
    Ok(Dict(("Response" :> TrueText) @@ ("imdbID" :> imdbID) @@
            ("Ratings" :> List(<<Dict(("Source" :> Str(Metacritic)) @@ ("Value" :> value))>>))))

OmdbWorlds == { World(<<Failed>>, <<OmdbAnswer(Text, Text)>>, <<Failed>>, <<Failed>>) }

WatchmodeFound(id) == Ok(Dict("title_results" :> List(<<Dict("id" :> id)>>)))

WatchmodeSources(name) == Ok(List(<<Dict(("name" :> name) @@ ("type" :> Text))>>))

WatchmodeWorlds ==
    { World(<<Failed>>, <<WatchmodeFound(Num(7))>>, <<WatchmodeSources(Text)>>, <<Failed>>) }

-----------------------------------------------------------------------------
(* UnreeledPipeline *)

\* A credential as os.getenv(name, "") reads it: unset is the empty string
Credential == {EmptyStr, Str(<<"k">>)}

\* The module-level configuration of unreeled_ingest
Environments ==
    [TMDB_API_KEY : Credential, IGDB_CLIENT_ID : Credential, IGDB_CLIENT_SECRET : Credential,
     PODCAST_INDEX_KEY : Credential, PODCAST_INDEX_SECRET : Credential, RAWG_KEY : Credential,
     OMDB_KEY : Credential, WATCHMODE_KEY : Credential, NEWSDATA_KEY : Credential]

\* UnreeledPipeline.__init__, the import of unreeled_sources_v5 succeeding
UnreeledPipeline(environ) ==
    [sources    |-> [tmdb |-> TMDBSource(environ.TMDB_API_KEY),
                     igdb |-> IGDBSource(environ.IGDB_CLIENT_ID, environ.IGDB_CLIENT_SECRET)],
     v5_sources |-> [podcast_index |-> PodcastIndexSource(environ.PODCAST_INDEX_KEY,
                                                          environ.PODCAST_INDEX_SECRET),
                     rawg          |-> [api_key |-> environ.RAWG_KEY],
                     newsdata      |-> [api_key |-> environ.NEWSDATA_KEY]],
     enrichers  |-> [omdb      |-> [api_key |-> environ.OMDB_KEY],
                     watchmode |-> [api_key |-> environ.WATCHMODE_KEY]]]

OMDB_MAX_LOOKUPS == 40

WATCHMODE_MAX_LOOKUPS == 20

\* str(e)
ErrText == Str(<<"e","r","r">>)

\* The requests a fetch sent, all kinds together
Total(reqs) == reqs.genre + reqs.list + reqs.detail + reqs.auth

\* One line of the log: the step, whether its try block ended in the except
\* branch, the records the fetch returned, the records the block put in
\* all_releases, the number of requests sent and the remote that answered
\* them (None when no request was sent)
Logged(step, exc, fetched, merged, requests, remote) ==
    [step |-> step, exc |-> exc, fetched |-> fetched, merged |-> merged, requests |-> requests,
     met |-> IF requests > 0 THEN remote ELSE JNull]

\* A faulty Block, for comparison: its except branch gives up on the adapters
\* that remain
Block_giving_up(name, exc, fetched, merged, requests, remote, next) ==
    /\ all_releases' = IF exc THEN all_releases ELSE all_releases \o merged
    /\ source_stats' = Put(source_stats, name, IF exc THEN 0 ELSE Len(merged))
    /\ errors' = IF exc THEN Put(errors, name, ErrText) ELSE errors
    /\ log' = Append(log, Logged(name, exc, fetched, IF exc THEN <<>> ELSE merged, requests, remote))
    /\ pc' = IF exc THEN "omdb" ELSE next
    /\ UNCHANGED <<output, disk, call, ret>>

\* A faulty Block, for comparison: it counts the records the fetch returned,
\* not the ones it merged
Block_counting_fetched(name, exc, fetched, merged, requests, remote, next) ==
    /\ all_releases' = IF exc THEN all_releases ELSE all_releases \o merged
    /\ source_stats' = Put(source_stats, name, IF exc THEN 0 ELSE Len(fetched))
    /\ errors' = IF exc THEN Put(errors, name, ErrText) ELSE errors
    /\ log' = Append(log, Logged(name, exc, fetched, IF exc THEN <<>> ELSE merged, requests, remote))
    /\ pc' = next
    /\ UNCHANGED <<output, disk, call, ret>>

\* One try/except block of ingest_date around an adapter: on success the
\* records are appended and counted, on an exception the count is 0 and the
\* error text is kept; either way the run goes on with the next step
Block(name, exc, fetched, merged, requests, remote, next) ==
    /\ all_releases' = IF exc THEN all_releases ELSE all_releases \o merged
    /\ source_stats' = Put(source_stats, name, IF exc THEN 0 ELSE Len(merged))
    /\ errors' = IF exc THEN Put(errors, name, ErrText) ELSE errors
    /\ log' = Append(log, Logged(name, exc, fetched, IF exc THEN <<>> ELSE merged, requests, remote))
    /\ pc' = next
    /\ UNCHANGED <<output, disk, call, ret>>

\* A block that appends all its fetch returned
Fetched(name, res, remote, next) ==
    Block(name, res.exc, res.recs, res.recs, Total(res.reqs), remote, next)

TmdbMovies ==
    /\ pc = "tmdb_movies"
    /\ \E remote \in MovieWorlds :
          LET res == fetch_movies(pipeline.sources.tmdb, TheDate, remote)
          IN  /\ pipeline' = [pipeline EXCEPT !.sources.tmdb = res.self]
              /\ Fetched("tmdb_movies", res, remote, "tmdb_tv")

TmdbTv ==
    /\ pc = "tmdb_tv"
    /\ \E remote \in ShowWorlds :
          LET res == fetch_tv(pipeline.sources.tmdb, TheDate, remote)
          IN  /\ pipeline' = [pipeline EXCEPT !.sources.tmdb = res.self]
              /\ Fetched("tmdb_tv", res, remote, "open_library")

OpenLibrary ==
    /\ pc = "open_library"
    /\ \E remote \in BookWorlds :
          Fetched("open_library", fetch_books(TheDate, remote), remote, "igdb_games")
    /\ UNCHANGED pipeline

IgdbGames ==
    /\ pc = "igdb_games"
    /\ \E remote \in IgdbWorlds :
          LET res == IGDB_fetch_games(pipeline.sources.igdb, TheDate, remote)
          IN  /\ pipeline' = [pipeline EXCEPT !.sources.igdb = res.self]
              /\ Fetched("igdb_games", res, remote, "jikan_anime")

JikanAnime ==
    /\ pc = "jikan_anime"
    /\ \E remote \in AnimeWorlds :
          Fetched("jikan_anime", fetch_anime(TheDate, remote), remote, "musicbrainz_music")
    /\ UNCHANGED pipeline

MusicBrainzMusic ==
    /\ pc = "musicbrainz_music"
    /\ \E remote \in MusicWorlds :
          LET res == fetch_music(TheDate, remote)
          IN  Block("musicbrainz_music", res.exc, res.recs, res.recs, Total(res.reqs), remote, "podcast_index")
    /\ UNCHANGED pipeline

PodcastIndex ==
    /\ pc = "podcast_index"
    /\ \E remote \in PodcastWorlds :
          Fetched("podcast_index",
                  fetch_podcasts(pipeline.v5_sources.podcast_index, TheDate, remote),
                  remote, "bgg_boardgames")
    /\ UNCHANGED pipeline

BggBoardgames ==
    /\ pc = "bgg_boardgames"
    /\ Fetched("bgg_boardgames", fetch_boardgames(TheDate), JNull, "rawg_games")
    /\ UNCHANGED pipeline

\* A faulty NewGames, for comparison: the titles are compared as they are
NewGames_exact(rawg_games, releases) ==
    LET games           == SelectSeq(releases, LAMBDA r : r.media_type = "game")
        existing_titles == {games[i].title : i \in 1..Len(games)}
    IN  IF \E i \in 1..Len(games) : games[i].title.k # "str"
        THEN [exc |-> TRUE, recs |-> <<>>]
        ELSE [exc |-> FALSE,
              recs |-> SelectSeq(rawg_games, LAMBDA g : g.title \notin existing_titles)]

\* The title filter of the RAWG block: the games whose lower-cased title no
\* game already merged has; lower() raises on a title that is not a string
NewGames(rawg_games, releases) ==
    LET games           == SelectSeq(releases, LAMBDA r : r.media_type = "game")
        existing_titles == {Lower(games[i].title.s) : i \in 1..Len(games)}
    IN  IF \E i \in 1..Len(games) : games[i].title.k # "str"
        THEN [exc |-> TRUE, recs |-> <<>>]
        ELSE [exc |-> FALSE,
              recs |-> SelectSeq(rawg_games, LAMBDA g : Lower(g.title.s) \notin existing_titles)]

RawgGames ==
    /\ pc = "rawg_games"
    /\ \E remote \in RawgWorlds :
          LET res       == Rawg_fetch_games(pipeline.v5_sources.rawg.api_key, TheDate, remote)
              new_games == NewGames(res.recs, all_releases)
          IN  Block("rawg_games", new_games.exc, res.recs, new_games.recs, Total(res.reqs), remote, "newsdata")
    /\ UNCHANGED pipeline

NewsData ==
    /\ pc = "newsdata"
    /\ \E remote \in NewsWorlds :
          Fetched("newsdata", fetch_news(pipeline.v5_sources.newsdata.api_key, TheDate, remote),
                  remote, "omdb")
    /\ UNCHANGED pipeline

\* An enrichment pass of ingest_date: the records are changed in place
Enriched(name, st, next) ==
    /\ all_releases' = st.releases
    /\ log' = Append(log, Logged(name, FALSE, <<>>, <<>>, st.requests, JNull))
    /\ pc' = next
    /\ UNCHANGED <<pipeline, source_stats, errors, output, disk, call, ret>>

Omdb ==
    /\ pc = "omdb"
    /\ \E remote \in OmdbWorlds :
          Enriched("omdb",
                   OMDb_enrich(pipeline.enrichers.omdb.api_key, all_releases, OMDB_MAX_LOOKUPS, remote),
                   "watchmode")

Watchmode ==
    /\ pc = "watchmode"
    /\ \E remote \in WatchmodeWorlds :
          Enriched("watchmode",
                   Watchmode_enrich(pipeline.enrichers.watchmode.api_key, all_releases,
                                    WATCHMODE_MAX_LOOKUPS, remote),
                   "sort")

\* r.get("metadata", {}).get("popularity", 0)
Popularity(r) == Get(r.metadata.d, "popularity", Num(0))

\* all_releases.sort(...): no try block is around it, an exception of the
\* comparison leaves ingest_date; the log keeps the list as it was before
Sort ==
    /\ pc = "sort"
    /\ LET keyvals == [i \in 1..Len(all_releases) |-> Popularity(all_releases[i])]
       IN  /\ log' = Append(log, Logged("sort", SortRaises(keyvals), all_releases, <<>>, 0, JNull))
           /\ IF SortRaises(keyvals)
              THEN pc' = "raised" /\ UNCHANGED all_releases
              ELSE /\ pc' = "save"
                   /\ all_releases' =
                        IF Len(all_releases) < 2 THEN all_releases
                        ELSE SortDesc(all_releases, [i \in 1..Len(all_releases) |-> keyvals[i].n])
    /\ UNCHANGED <<pipeline, source_stats, errors, output, disk, call, ret>>

\* The output document
Document(releases, stats, errs) ==
    [date            |-> TheDate,
     ingested_at     |-> utcnow_iso,
     total_releases  |-> Len(releases),
     source_stats    |-> stats,
     filters_applied |-> [min_movie_runtime     |-> MIN_MOVIE_RUNTIME,
                          language_filter       |-> JNull,
                          include_talk_shows    |-> FALSE,
                          include_reality       |-> FALSE,
                          include_news          |-> FALSE,
                          include_singles       |-> INCLUDE_SINGLES,
                          music_cover_art_limit |-> MUSIC_COVER_ART_LIMIT],
     releases        |-> releases]
    @@ (IF DOMAIN errs # {} THEN [errors |-> errs] ELSE <<>>)

Absent == [state |-> "absent"]

\* The file after a write that broke off: opened for writing, so emptied, and
\* holding what json.dump wrote until then
Partial == [state |-> "partial"]

Complete(doc) == [state |-> "complete", doc |-> doc]

\* Build the document, write it, return it.  open() or json.dump may raise
\* (no permission, disk full): the exception leaves ingest_date
Save ==
    /\ pc = "save"
    /\ LET doc == Document(all_releases, source_stats, errors)
       IN  \E outcome \in {"written", "open_raises", "dump_raises"} :
              /\ log' = Append(log, Logged("save", outcome # "written", <<>>, <<>>, 0, JNull))
              /\ pc' = IF outcome = "written" THEN "done" ELSE "raised"
              /\ output' = IF outcome = "written" THEN doc ELSE output
              /\ disk' = CASE outcome = "written"     -> Complete(doc)
                           [] outcome = "open_raises" -> disk
                           [] outcome = "dump_raises" -> Partial
    /\ UNCHANGED <<pipeline, all_releases, source_stats, errors, call, ret>>

Init ==
    /\ pipeline \in {UnreeledPipeline(environ) : environ \in Environments}
    /\ pc = "tmdb_movies"
    /\ all_releases = <<>>
    /\ source_stats = <<>>
    /\ errors = <<>>
    /\ output = JNull
    /\ disk = Absent
    /\ log = <<>>
    /\ call = JNull
    /\ ret = JNull

Next ==
    \/ TmdbMovies
    \/ TmdbTv
    \/ OpenLibrary
    \/ IgdbGames
    \/ JikanAnime
    \/ MusicBrainzMusic
    \/ PodcastIndex
    \/ BggBoardgames
    \/ RawgGames
    \/ NewsData
    \/ Omdb
    \/ Watchmode
    \/ Sort
    \/ Save

Spec == Init /\ [][Next]_vars

-----------------------------------------------------------------------------
(* Properties of ingest_date *)

AdapterSteps ==
    <<"tmdb_movies", "tmdb_tv", "open_library", "igdb_games", "jikan_anime",
      "musicbrainz_music", "podcast_index", "bgg_boardgames", "rawg_games", "newsdata">>

KeyedSteps == {"tmdb_movies", "tmdb_tv", "igdb_games", "podcast_index", "rawg_games", "newsdata"}

\* The lines of the log written by adapter blocks
AdapterLines == {i \in 1..Len(log) : log[i].step \in Range(AdapterSteps)}

\* The fields of a record no enricher writes
Core(r) == <<r.source, r.media_type, r.title, r.release_date, r.synopsis, r.genres, r.poster_url>>

\* Every record of recs is in releases, up to what enrichment added
AllIn(recs, releases) ==
    \A i \in 1..Len(recs) : \E j \in 1..Len(releases) : Core(releases[j]) = Core(recs[i])

RECURSIVE SumOver(_, _)
SumOver(f, S) ==
    IF S = {} THEN 0
    ELSE LET x == CHOOSE y \in S : TRUE IN f[x] + SumOver(f, S \ {x})

\* The popularity the sort goes by, a record without the key counting as 0
PopularityOrZero(r) ==
    IF "popularity" \in DOMAIN r.metadata.d THEN r.metadata.d["popularity"] ELSE Num(0)

\* The run ended by an exception leaving ingest_date at the named step
RaisedAt(step) == pc = "raised" /\ log[Len(log)].step = step

\* The fetch of the adapter of log line e returned (RAWG's fetch catches
\* every exception, what can raise in its block is the title filter)
FetchReturned(e) == e.step = "rawg_games" \/ ~e.exc

\* C1 as stated: once an adapter has raised, in the returned document the
\* raising adapter counts 0 and has an errors entry, every adapter was
\* invoked, and every record returned by a fetch that did not raise is in
\* the releases
C1_AsStated ==
    (pc = "done" /\ \E i \in AdapterLines : log[i].exc) =>
        /\ \A i \in AdapterLines :
              log[i].exc => /\ output.source_stats[log[i].step] = 0
                            /\ log[i].step \in DOMAIN output.errors
        /\ \A k \in 1..Len(AdapterSteps) : log[k].step = AdapterSteps[k]
        /\ \A i \in AdapterLines :
              FetchReturned(log[i]) => AllIn(log[i].fetched, output.releases)

\* The records the block of log line e merges when it completes: all the fetch
\* returned, and for RAWG those whose title, lower-cased, no game merged before
\* has
Mergeable(i) ==
    IF log[i].step # "rawg_games" THEN log[i].fetched
    ELSE LET before == UNION {Range(log[j].merged) : j \in 1..(i - 1)}
             taken  == {Lower(r.title.s) : r \in {x \in before : x.media_type = "game"}}
         IN  SelectSeq(log[i].fetched, LAMBDA g : Lower(g.title.s) \notin taken)

\* C1, amended: at every point of a run, a block that raised (the fetch, or
\* for RAWG the title filter) left the count 0 and an errors entry; a block
\* that completed counted and merged its records (RAWG those passing the
\* title filter) and they stay in the list; the blocks run in their order, all
\* ten before the enrichment; and the returned document carries these counts,
\* errors and records, total_releases being the sum of the counts
C1_PartialFailure ==
    /\ \A i \in AdapterLines :
          IF log[i].exc
          THEN /\ source_stats[log[i].step] = 0
               /\ log[i].step \in DOMAIN errors
               /\ log[i].merged = <<>>
          ELSE /\ log[i].merged = Mergeable(i)
               /\ source_stats[log[i].step] = Len(log[i].merged)
               /\ log[i].step \notin DOMAIN errors
               /\ AllIn(log[i].merged, all_releases)
    /\ \A k \in 1..Len(log) : k <= Len(AdapterSteps) => log[k].step = AdapterSteps[k]
    /\ pc \in {"omdb", "watchmode", "sort", "save", "done", "raised"}
          => Len(log) >= Len(AdapterSteps)
    /\ pc = "done" =>
          /\ output.source_stats = source_stats
          /\ DOMAIN source_stats = Range(AdapterSteps)
          /\ \A name \in DOMAIN errors : output.errors[name] = errors[name]
          /\ \A i \in AdapterLines : AllIn(log[i].merged, output.releases)
          /\ output.total_releases = SumOver(source_stats, DOMAIN source_stats)
          /\ output.total_releases = Len(output.releases)

\* A run where the first adapter raised, a later one merged records and the
\* document was returned
C1_Witness ==
    /\ pc = "done"
    /\ log[1].exc
    /\ \E i \in AdapterLines : i > 1 /\ ~log[i].exc /\ Len(log[i].merged) >= 2
    /\ output.total_releases >= 2

\* C2 as stated: an exception leaves ingest_date only from the writing of the
\* file, and a run where every invoked adapter raised returns a document with
\* no release and an errors entry per adapter
C2_AlwaysDocument ==
    /\ pc = "raised" => RaisedAt("save")
    /\ (pc = "done" /\ \A i \in AdapterLines : log[i].exc) =>
          /\ output.total_releases = 0
          /\ DOMAIN output.errors = Range(AdapterSteps)

\* No credential is configured
NoCredentials ==
    /\ ~Truthy(pipeline.sources.tmdb.api_key)
    /\ ~Truthy(pipeline.sources.igdb.client_id)
    /\ ~Truthy(pipeline.sources.igdb.client_secret)
    /\ ~Truthy(pipeline.v5_sources.podcast_index.api_key)
    /\ ~Truthy(pipeline.v5_sources.podcast_index.api_secret)
    /\ ~Truthy(pipeline.v5_sources.rawg.api_key)
    /\ ~Truthy(pipeline.v5_sources.newsdata.api_key)
    /\ ~Truthy(pipeline.enrichers.omdb.api_key)
    /\ ~Truthy(pipeline.enrichers.watchmode.api_key)

\* C4 as stated: with no credential configured the run returns a document
\* with no release, and no exception leaves ingest_date
C4_AsStated ==
    NoCredentials =>
        /\ pc # "raised"
        /\ pc = "done" => output.total_releases = 0 /\ output.releases = <<>>

KeylessSources == {"open_library", "jikan", "musicbrainz"}

\* C4, amended: with no credential configured, every adapter and enricher
\* that needs one sends no request, returns no record and leaves no errors
\* entry, so every merged record comes from Open Library, Jikan or
\* MusicBrainz; the only exception that leaves ingest_date is one of the
\* writing of the file, and a returned document counts exactly those records
C4_NoCredentials ==
    NoCredentials =>
        /\ \A i \in 1..Len(log) :
              log[i].step \in KeyedSteps \cup {"omdb", "watchmode"} =>
                  /\ ~log[i].exc
                  /\ log[i].fetched = <<>>
                  /\ log[i].requests = 0
        /\ \A name \in KeyedSteps \cap DOMAIN source_stats : source_stats[name] = 0
        /\ KeyedSteps \cap DOMAIN errors = {}
        /\ \A i \in 1..Len(all_releases) : all_releases[i].source \in KeylessSources
        /\ pc = "raised" => RaisedAt("save")
        /\ pc = "done" =>
              /\ output.total_releases = Len(output.releases)
              /\ \A i \in 1..Len(output.releases) : output.releases[i].source \in KeylessSources
              /\ \A i \in AdapterLines :
                    log[i].step \notin KeyedSteps => AllIn(log[i].merged, output.releases)

\* A run without credentials that returned a document holding releases
C4_Witness ==
    /\ NoCredentials
    /\ pc = "done"
    /\ output.total_releases > 0
    /\ \E i \in 1..Len(log) : log[i].step = "igdb_games" /\ log[i].requests = 0

\* Positions of releases whose popularity is v
WithPopularity(releases, v) == SelectSeq(releases, LAMBDA r : PopularityOrZero(r) = v)

\* The list ingest_date sorted, as it was before the sort
BeforeSort == log[CHOOSE i \in 1..Len(log) : log[i].step = "sort"].fetched

\* C5: in a returned document the popularities of releases never increase
\* from one record to the next, a record without the key counting as 0, and
\* the records of one popularity are in the order the merged list had them
C5_SortedStable ==
    pc = "done" =>
        /\ \A i \in 1..Len(output.releases), j \in 1..Len(output.releases) :
              i < j => PopularityOrZero(output.releases[i]).n >= PopularityOrZero(output.releases[j]).n
        /\ \A i \in 1..Len(output.releases) :
              WithPopularity(output.releases, PopularityOrZero(output.releases[i]))
                  = WithPopularity(BeforeSort, PopularityOrZero(output.releases[i]))
        /\ Len(output.releases) = Len(BeforeSort)

\* A returned document whose merged list had two records of one popularity
\* behind a record of a smaller one, and a record without the key
C5_Witness ==
    /\ pc = "done"
    /\ \E i, j, k \in 1..Len(BeforeSort) :
          /\ i < j /\ j < k
          /\ PopularityOrZero(BeforeSort[i]).n < PopularityOrZero(BeforeSort[j]).n
          /\ PopularityOrZero(BeforeSort[j]) = PopularityOrZero(BeforeSort[k])
          /\ BeforeSort[j] # BeforeSort[k]
    /\ \E i \in 1..Len(BeforeSort) : "popularity" \notin DOMAIN BeforeSort[i].metadata.d
    /\ output.releases # BeforeSort

\* C6: in a returned document no RAWG record has the title of an IGDB record,
\* letter case ignored, and every IGDB record fetched is there
C6_NoDuplicateGame ==
    pc = "done" =>
        /\ \A i \in 1..Len(output.releases), j \in 1..Len(output.releases) :
              (/\ output.releases[i].source = "rawg"
               /\ output.releases[j].source = "igdb"
               /\ output.releases[j].title.k = "str")
              => Lower(output.releases[i].title.s) # Lower(output.releases[j].title.s)
        /\ \A i \in AdapterLines :
              log[i].step = "igdb_games" => AllIn(log[i].fetched, output.releases)

\* A returned document of a run where RAWG returned a game IGDB had returned
\* under another letter case: one record of that title is left, the IGDB one
C6_Witness ==
    /\ pc = "done"
    /\ \E i \in AdapterLines, j \in AdapterLines :
          /\ log[i].step = "igdb_games" /\ log[j].step = "rawg_games"
          /\ \E a \in Range(log[i].fetched), b \in Range(log[j].fetched) :
                a.title # b.title /\ a.title.k = "str" /\ Lower(a.title.s) = Lower(b.title.s)
          /\ Len(log[j].merged) = 1
    /\ Cardinality({i \in 1..Len(output.releases) :
                      /\ output.releases[i].media_type = "game"
                      /\ output.releases[i].title.k = "str"
                      /\ Lower(output.releases[i].title.s) = NovaLower}) = 1

-----------------------------------------------------------------------------
(* Single calls.  The functions below are called on their own: call holds  *)
(* the function and its arguments, ret what it returned (JNull before the  *)
(* call is made).  The pipeline is idle meanwhile.                         *)

Idle ==
    /\ pipeline = JNull
    /\ pc = "idle"
    /\ all_releases = <<>>
    /\ source_stats = <<>>
    /\ errors = <<>>
    /\ output = JNull
    /\ disk = Absent
    /\ log = <<>>

\* The call in call returns value
Returns(value) ==
    /\ ret = JNull
    /\ ret' = value
    /\ UNCHANGED <<call, pipeline, pc, all_releases, source_stats, errors, output, disk, log>>

(* make_release, both modules *)

OptionalFields == {"synopsis", "genres", "metadata", "poster_url", "external_ids"}

\* The empty form of an optional field
EmptyForm(field) ==
    CASE field \in {"synopsis", "poster_url"}    -> EmptyStr
      [] field = "genres"                        -> EmptyList
      [] field \in {"metadata", "external_ids"}  -> EmptyDict

\* What a caller may pass for an optional field: None, the empty form, a value
Passable(field) ==
    {JNull, EmptyForm(field)} \cup
    CASE field \in {"synopsis", "poster_url"}    -> {Text, Num(7)}
      [] field = "genres"                        -> {List(<<Text>>)}
      [] field \in {"metadata", "external_ids"}  -> {Dict("a" :> Num(1))}

\* The keyword arguments of a call: any of the optional fields, each with any
\* passable value
Kwargs ==
    UNION {{k \in [given -> UNION {Passable(field) : field \in given}] :
                \A field \in given : k[field] \in Passable(field)}
           : given \in SUBSET OptionalFields}

InitRelease ==
    /\ Idle
    /\ call \in [fn : {"make_release", "make_release_v5"}, kwargs : Kwargs]
    /\ ret = JNull

CallMakeRelease ==
    /\ call.fn = "make_release"
    /\ Returns(make_release("tmdb", "movie", Str(Zed), TheDate, call.kwargs))

CallMakeReleaseV5 ==
    /\ call.fn = "make_release_v5"
    /\ Returns(make_release_v5("rawg", "game", Str(Zed), TheDate, call.kwargs))

NextRelease == CallMakeRelease \/ CallMakeReleaseV5

SpecRelease == InitRelease /\ [][NextRelease]_vars

\* C10: the record make_release returns, in either module, has every optional
\* field and none is None; a field left out or passed as None has its empty
\* form
C10_OptionalDefaults ==
    ret # JNull =>
        \A field \in OptionalFields :
            /\ ret[field] # JNull
            /\ (field \notin DOMAIN call.kwargs \/ call.kwargs[field] = JNull)
                  => ret[field] = EmptyForm(field)

(* The fetches *)

\* The longest stream of answers a called fetch is given (streams are read
\* cyclically, so a stream of one answer is a service that always says the
\* same)
MaxStream == 2

\* The most pages a TMDB answer announces
MaxAnnounced == 7

\* The non-empty streams over a pool of answers
Streams(pool) == UNION {[1..n -> pool] : n \in 1..MaxStream}

TmdbAnswers ==
    {Failed, TmdbPage(JNull, <<MovieItem(1, Nova, Num(10))>>)}
    \cup {TmdbPage(Num(n), results) :
            n \in 0..MaxAnnounced,
            results \in {<<>>, <<TmdbItem(("id" :> Num(1)) @@ ("title" :> Str(Nova))
                                          @@ ("name" :> Str(Nova)))>>}}

JikanAnswers ==
    {Failed, Ok(Dict("data" :> List(<<Anime(7, <<>>)>>)))}
    \cup {AnimePage(items, more) :
            items \in {<<>>, <<Anime(7, <<>>)>>, <<Anime(7, <<>>), Anime(8, <<>>)>>},
            more \in {Bool(TRUE), Bool(FALSE)}}

MusicAnswers ==
    {Failed, Resp("503", JNull)}
    \cup {MusicPage(count, releases) :
            count \in {Num(0), Num(1), Num(150), Num(1000)},
            releases \in {<<>>, <<Album(Zed, <<>>)>>}}

\* A first page that announces more, then a rate-limited answer whose retry
\* is rate-limited, fails or succeeds
MusicRetryStreams ==
    {<<MusicPage(Num(1000), <<Album(Zed, <<>>)>>), Resp("503", JNull), second>> :
        second \in {Resp("503", JNull), Failed, Resp("500", JNull),
                    MusicPage(Num(150), <<Album(Nova, <<>>)>>)}}

\* The calls: the function, the credentials of its adapter and the remote
FetchCalls ==
    [fn : {"fetch_movies", "fetch_tv"}, key : Credential, secret : {EmptyStr},
     remote : {World(<<GenresOk>>, pages, <<MovieDetail(Num(90))>>, <<Failed>>) :
                 pages \in Streams(TmdbAnswers)}]
    \cup [fn : {"igdb.fetch_games"}, key : Credential, secret : Credential, remote : IgdbWorlds]
    \cup [fn : {"fetch_podcasts"}, key : Credential, secret : Credential, remote : PodcastWorlds]
    \cup [fn : {"rawg.fetch_games"}, key : Credential, secret : {EmptyStr}, remote : RawgWorlds]
    \cup [fn : {"fetch_news"}, key : Credential, secret : {EmptyStr}, remote : NewsWorlds]
    \cup [fn : {"fetch_comics"}, key : Credential, secret : {EmptyStr},
          remote : {World(<<Failed>>,
                          <<Ok(Dict("results" :> List(<<Dict(("id" :> Num(3)) @@ ("name" :> Str(Zed)))>>)))>>,
                          <<Failed>>, <<Failed>>)}]
    \cup [fn : {"fetch_anime"}, key : {EmptyStr}, secret : {EmptyStr},
          remote : {World(<<Failed>>, pages, <<Failed>>, <<Failed>>) : pages \in Streams(JikanAnswers)}]
    \cup [fn : {"fetch_music"}, key : {EmptyStr}, secret : {EmptyStr},
          remote : {World(<<Failed>>, pages, <<Failed>>, <<Failed>>) :
                      pages \in Streams(MusicAnswers) \cup MusicRetryStreams}]

InitFetch ==
    /\ Idle
    /\ call \in FetchCalls
    /\ ret = JNull

CallFetchMovies ==
    /\ call.fn = "fetch_movies"
    /\ Returns(fetch_movies(TMDBSource(call.key), TheDate, call.remote))

CallFetchTv ==
    /\ call.fn = "fetch_tv"
    /\ Returns(fetch_tv(TMDBSource(call.key), TheDate, call.remote))

CallIgdbFetchGames ==
    /\ call.fn = "igdb.fetch_games"
    /\ Returns(IGDB_fetch_games(IGDBSource(call.key, call.secret), TheDate, call.remote))

CallFetchPodcasts ==
    /\ call.fn = "fetch_podcasts"
    /\ Returns(fetch_podcasts(PodcastIndexSource(call.key, call.secret), TheDate, call.remote))

CallRawgFetchGames ==
    /\ call.fn = "rawg.fetch_games"
    /\ Returns(Rawg_fetch_games(call.key, TheDate, call.remote))

CallFetchNews ==
    /\ call.fn = "fetch_news"
    /\ Returns(fetch_news(call.key, TheDate, call.remote))

CallFetchComics ==
    /\ call.fn = "fetch_comics"
    /\ Returns(fetch_comics(call.key, TheDate, call.remote))

CallFetchAnime ==
    /\ call.fn = "fetch_anime"
    /\ Returns(fetch_anime(TheDate, call.remote))

CallFetchMusic ==
    /\ call.fn = "fetch_music"
    /\ Returns(fetch_music(TheDate, call.remote))

NextFetch ==
    \/ CallFetchMovies
    \/ CallFetchTv
    \/ CallIgdbFetchGames
    \/ CallFetchPodcasts
    \/ CallRawgFetchGames
    \/ CallFetchNews
    \/ CallFetchComics
    \/ CallFetchAnime
    \/ CallFetchMusic

SpecFetch == InitFetch /\ [][NextFetch]_vars

\* The call is a fetch of an adapter that needs a credential, made without
\* it: the key empty, or for IGDB and Podcast Index either half of the pair
CredentialAbsent ==
    CASE call.fn \in {"fetch_movies", "fetch_tv", "rawg.fetch_games", "fetch_news", "fetch_comics"}
            -> ~Truthy(call.key)
      [] call.fn \in {"igdb.fetch_games", "fetch_podcasts"}
            -> ~Truthy(call.key) \/ ~Truthy(call.secret)
      [] OTHER -> FALSE

\* C3: a fetch made without its credential returns the empty list, raises
\* nothing and sends no request
C3_NoCredentialNoRequest ==
    (ret # JNull /\ CredentialAbsent) =>
        /\ ~ret.exc
        /\ ret.recs = <<>>
        /\ Total(ret.reqs) = 0

\* An IGDB fetch with the client id but no secret returned nothing and sent
\* nothing, where the service would have given a token and a game
C3_Witness ==
    /\ ret # JNull
    /\ call.fn = "igdb.fetch_games"
    /\ Truthy(call.key) /\ ~Truthy(call.secret)
    /\ ret.recs = <<>> /\ Total(ret.reqs) = 0
    /\ IGDB_fetch_games(IGDBSource(call.key, call.key), TheDate, call.remote).recs # <<>>

\* C9: every pagination loop ends, whatever the answers announce: fetch_movies
\* and fetch_tv send at most 5 list requests, fetch_anime at most 3,
\* fetch_music asks for at most 3 pages, at the offsets 0, 100, 200
C9_PaginationBounded ==
    ret # JNull =>
        /\ call.fn \in {"fetch_movies", "fetch_tv"} => ret.reqs.list <= 5
        /\ call.fn = "fetch_anime" => ret.reqs.list <= 3
        /\ call.fn = "fetch_music" =>
              /\ Len(ret.offsets) <= 3
              /\ \A i \in 1..Len(ret.offsets) : ret.offsets[i] = 100 * (i - 1)

\* A fetch_movies that stopped after 5 list requests though every answer
\* announced more pages and held results
C9_Witness ==
    /\ ret # JNull
    /\ call.fn = "fetch_movies"
    /\ ret.reqs.list = 5
    /\ ~ret.exc
    /\ Len(ret.recs) = 5
    /\ \A i \in 1..Len(call.remote.pages) :
          /\ call.remote.pages[i].st = "200"
          /\ call.remote.pages[i].json.d["total_pages"] = Num(MaxAnnounced)

(* The enrichers *)

\* The longest list of records an enricher is called on
MaxRecords == 2

\* The largest max_lookups an enricher is called with
MaxLookups == 2

\* The records: a movie, a show that has its IMDb id, a movie that has
\* ratings and streaming data already, a book
EnrichableRecords ==
    { make_release("tmdb", "movie", Str(Nova), TheDate, "metadata" :> Dict("a" :> Num(1))),
      make_release("tmdb", "tv", Str(Zed), TheDate, "external_ids" :> Dict("imdb_id" :> Str(<<"t","t","1">>))),
      make_release("tmdb", "movie", Str(Zed), TheDate,
                   ("metadata" :> Dict(("ratings" :> Dict("metacritic" :> Str(<<"1">>))) @@
                                       ("streaming" :> Dict(<<"y">> :> EmptyDict)) @@
                                       ("recommendations" :> List(<<Str(Zed)>>)))) @@
                   ("external_ids" :> Dict("watchmode_id" :> Num(3)))),
      make_release("open_library", "book", Str(Nova), TheDate, <<>>) }

RecordLists == UNION {[1..n -> EnrichableRecords] : n \in 0..MaxRecords}

OmdbAnswers ==
    {Failed, Resp("404", JNull), OmdbAnswer(Str(<<"t","t","2">>), Text),
     Ok(Dict(("Response" :> TrueText) @@ ("imdbID" :> Str(<<"t","t","2">>)) @@ ("Ratings" :> EmptyList)))}

TasteDiveAnswers ==
    {Failed, Ok(EmptyDict),
     Ok(Dict("Similar" :> Dict("Results" :> List(<<Dict("Name" :> Text)>>))))}

WatchmodeSearches == {Failed, Ok(Dict("title_results" :> EmptyList)), WatchmodeFound(Num(7))}

WatchmodeTitles == {Failed, Ok(EmptyList), WatchmodeSources(Text)}

\* The remotes an enricher may meet
EnrichWorlds(fn) ==
    CASE fn = "omdb.enrich" ->
            {World(<<Failed>>, pages, <<Failed>>, <<Failed>>) : pages \in Streams(OmdbAnswers)}
      [] fn = "tastedive.enrich" ->
            {World(<<Failed>>, pages, <<Failed>>, <<Failed>>) : pages \in Streams(TasteDiveAnswers)}
      [] fn = "watchmode.enrich" ->
            {World(<<Failed>>, pages, <<details>>, <<Failed>>) :
                pages \in Streams(WatchmodeSearches), details \in WatchmodeTitles}

Enrichers == {"omdb.enrich", "tastedive.enrich", "watchmode.enrich"}

EnrichCalls ==
    UNION {[fn : {fn}, key : Credential, releases : RecordLists, max_lookups : 0..MaxLookups,
            remote : EnrichWorlds(fn), pass : {1}] : fn \in Enrichers}

InitEnrich ==
    /\ Idle
    /\ call \in EnrichCalls
    /\ ret = JNull

CallOmdbEnrich ==
    /\ call.fn = "omdb.enrich"
    /\ Returns(OMDb_enrich(call.key, call.releases, call.max_lookups, call.remote))

CallTasteDiveEnrich ==
    /\ call.fn = "tastedive.enrich"
    /\ Returns(TasteDive_enrich(call.key, call.releases, call.max_lookups, call.remote))

CallWatchmodeEnrich ==
    /\ call.fn = "watchmode.enrich"
    /\ Returns(Watchmode_enrich(call.key, call.releases, call.max_lookups, call.remote))

\* A later pass over the records an enricher has worked on: any enricher, any
\* budget, the remote answering as it did or, for another enricher, with data
LaterPass ==
    /\ ret # JNull
    /\ call.pass = 1
    /\ \E fn \in Enrichers, max_lookups \in 0..MaxLookups :
          call' = [fn |-> fn, key |-> call.key, releases |-> ret.releases,
                   max_lookups |-> max_lookups,
                   remote |-> IF fn = call.fn THEN call.remote
                              ELSE World(<<Failed>>,
                                         <<CASE fn = "omdb.enrich" -> OmdbAnswer(Str(<<"t","t","2">>), Text)
                                             [] fn = "tastedive.enrich" ->
                                                  Ok(Dict("Similar" :> Dict("Results" :> List(<<Dict("Name" :> Text)>>))))
                                             [] fn = "watchmode.enrich" -> WatchmodeFound(Num(7))>>,
                                         <<WatchmodeSources(Text)>>, <<Failed>>),
                   pass |-> 2]
    /\ ret' = JNull
    /\ UNCHANGED pipeVars

NextEnrich ==
    \/ CallOmdbEnrich
    \/ CallTasteDiveEnrich
    \/ CallWatchmodeEnrich
    \/ LaterPass

SpecEnrich == InitEnrich /\ [][NextEnrich]_vars

\* C7: an enrich call sends at most max_lookups requests, every request sent
\* counted
C7_LookupCeiling ==
    ret # JNull => ret.requests <= call.max_lookups

\* d holds every key of c with the value c has
Keeps(c, d) == \A key \in DOMAIN c : key \in DOMAIN d /\ d[key] = c[key]

\* C8: an enrich call leaves every record with the keys its metadata and
\* external_ids had, each with its value, and with its other fields as they
\* were; this holds of a later pass over records an earlier pass has added to
C8_Additive ==
    ret # JNull =>
        /\ Len(ret.releases) = Len(call.releases)
        /\ \A i \in 1..Len(call.releases) :
              /\ Keeps(call.releases[i].metadata.d, ret.releases[i].metadata.d)
              /\ Keeps(call.releases[i].external_ids.d, ret.releases[i].external_ids.d)
              /\ [ret.releases[i] EXCEPT !.metadata = EmptyDict, !.external_ids = EmptyDict]
                    = [call.releases[i] EXCEPT !.metadata = EmptyDict, !.external_ids = EmptyDict]

(* The title + authors / title + artists deduplication *)

\* The longest list the deduplication is applied to
MaxReleases == 3

DedupTitles == {Nova, <<" ">> \o NovaLower \o <<" ">>, Zed}

DedupNames == {<<Str(<<"a">>), Str(<<"b">>)>>, <<Str(<<"b">>), Str(<<"a">>)>>, <<Str(<<"a">>)>>}

\* Records as fetch_books and fetch_music build them: titles that differ in
\* case and surrounding spaces, name lists that differ in order, one record
\* with no names at all
DedupRecords(source, media_type, field) ==
    {make_release(source, media_type, Str(title), TheDate, "metadata" :> Dict(field :> List(names))) :
        title \in DedupTitles, names \in DedupNames}
    \cup {make_release(source, media_type, Str(Nova), TheDate, <<>>)}

DedupCalls ==
    UNION {[fn : {"fetch_books.dedup"},
            releases : [1..n -> DedupRecords("open_library", "book", "authors")],
            first : {<<>>}, pass : {1}]
             \cup
           [fn : {"fetch_music.dedup"},
            releases : [1..n -> DedupRecords("musicbrainz", "music", "artists")],
            first : {<<>>}, pass : {1}]
           : n \in 0..MaxReleases}

InitDedup ==
    /\ Idle
    /\ call \in DedupCalls
    /\ ret = JNull

CallBooksDedup ==
    /\ call.fn = "fetch_books.dedup"
    /\ Returns([unique |-> OL_unique(call.releases, {})])

CallMusicDedup ==
    /\ call.fn = "fetch_music.dedup"
    /\ Returns([unique |-> MB_unique(call.releases, {})])

\* The deduplication is applied to the list it returned
DedupAgain ==
    /\ ret # JNull
    /\ call.pass = 1
    /\ call' = [call EXCEPT !.releases = ret.unique, !.first = call.releases, !.pass = 2]
    /\ ret' = JNull
    /\ UNCHANGED pipeVars

NextDedup == CallBooksDedup \/ CallMusicDedup \/ DedupAgain

SpecDedup == InitDedup /\ [][NextDedup]_vars

DedupKey(fn, r) == IF fn = "fetch_books.dedup" THEN OL_key(r) ELSE MB_key(r)

\* C11: the list the deduplication returns has no two records with one key
\* (lower-cased stripped title, sorted names), and applying the
\* deduplication to the list it returned gives that list back, in its order
C11_DedupIdempotent ==
    ret # JNull =>
        /\ \A i, j \in 1..Len(ret.unique) :
              DedupKey(call.fn, ret.unique[i]) = DedupKey(call.fn, ret.unique[j]) => i = j
        /\ call.pass = 2 => ret.unique = call.releases

\* A second application to a list from which the first one removed a record
\* that differed from an earlier one only in case, spaces or the order of the
\* names
C11_Witness ==
    /\ ret # JNull
    /\ call.pass = 2
    /\ Len(call.first) = 3
    /\ Len(ret.unique) = 2
    /\ call.first[1].title # call.first[2].title
    /\ call.first[1].metadata # call.first[2].metadata
    /\ DedupKey(call.fn, call.first[1]) = DedupKey(call.fn, call.first[2])
    /\ \E i \in 1..2 : ret.unique[i].title = Str(<<" ">> \o NovaLower \o <<" ">>)
                       /\ DedupKey(call.fn, ret.unique[i])[2] = SortedTuple(<<Str(<<"b">>), Str(<<"a">>)>>)

(* The item loops: one answer holding a batch of raw items *)

\* The longest batch of raw items in an answer
MaxBatch == 2

Batches(pool) == UNION {[1..n -> pool] : n \in 0..MaxBatch}

\* Raw movies: well-formed ones, one with neither overview nor poster, one
\* with no id, one whose title is null, one whose title is empty, one with
\* no title
RawMovies ==
    { MovieItem(1, Nova, Num(10)),
      TmdbItem(("id" :> Num(2)) @@ ("title" :> Str(Zed)) @@ ("poster_path" :> Str(<<"/","p">>))),
      Dict(("id" :> Num(3)) @@ ("title" :> Str(Zed))),
      TmdbItem("title" :> Str(Zed)),
      TmdbItem(("id" :> Num(5)) @@ ("title" :> JNull)),
      TmdbItem(("id" :> Num(6)) @@ ("title" :> EmptyStr)),
      TmdbItem("id" :> Num(7)) }

\* The answers to /movie/{id}: a failure, no runtime, a null runtime, and
\* runtimes around MIN_MOVIE_RUNTIME
MovieDetails ==
    {Failed, Ok(EmptyDict)} \cup
    {MovieDetail(runtime) : runtime \in {JNull, Num(0), Num(10), Num(39), Num(40), Num(90)}}

\* Raw RAWG games: well-formed ones, a null in the place of a game, one whose
\* name is null, one whose name is empty
RawGames ==
    { RawgGame(1, Nova, Num(5)), RawgGame(2, Zed, Num(30)), JNull,
      Dict(("id" :> Num(3)) @@ ("name" :> JNull)),
      Dict(("id" :> Num(4)) @@ ("name" :> EmptyStr)) }

\* A raw Open Library doc of the target year that has a work key and no
\* first sentence
ShelfDoc(subject, j) ==
    BookDoc(("title" :> Str(<<"b">> \o StrOfNat(subject) \o <<"-">> \o StrOfNat(j))) @@
            ("first_publish_year" :> Num(2026)) @@
            ("key" :> Str(<<"/","w">>)))

\* Open Library answering each subject search with per_subject books no other
\* subject has
ShelfWorld(per_subject, details) ==
    World(<<Failed>>,
          [subject \in 1..OL_SUBJECTS |->
              Ok(Dict("docs" :> List([j \in 1..per_subject |-> ShelfDoc(subject, j)])))],
          details, <<Failed>>)

\* The answers to a work request: a failure, a work with no description, a
\* work with one
WorkAnswers == {Failed, Ok(EmptyDict), Ok(Dict("description" :> Text))}

\* Raw anime: two entries of one MAL id that differ in their title, one of
\* another id, one with no id
RawAnime ==
    {Anime(7, <<>>), Anime(7, "title" :> Str(Nova)), Anime(8, <<>>), Dict("title" :> Str(Nova))}

\* The edition dates of a book: none, one of the target year in another
\* month, one of the target month, one of another year
EditionDates ==
    { <<>>,
      <<Str(<<"M","a","r","c","h"," ","2","0","2","6">>)>>,
      <<Str(<<"F","e","b"," ","2","0","2","6">>)>>,
      <<Str(<<"2","0","2","5">>)>> }

\* Open Library answering every subject search with the same one book
EditionWorlds ==
    { World(<<Failed>>,
            <<Ok(Dict("docs" :> List(<<BookDoc(("publish_date" :> List(pds)) @@ fpy)>>)))>>,
            <<Failed>>, <<Failed>>) :
        pds \in EditionDates,
        fpy \in {<<>>, "first_publish_year" :> Num(2026), "first_publish_year" :> Num(2025)} }

\* A raw MusicBrainz release of a release group of the given primary type
TypedRelease(title, primary_type) ==
    Album(title, "release-group" :> Dict("primary-type" :> Str(primary_type)))

\* Raw releases: a single and an album of one title and no artist, a single
\* of another title with its type in lower case, a release of no group
RawMusic ==
    { TypedRelease(Zed, <<"S","i","n","g","l","e">>),
      TypedRelease(Zed, <<"A","l","b","u","m">>),
      TypedRelease(Nova, <<"s","i","n","g","l","e">>),
      Album(Nova, <<>>) }

AnimeBatches ==
    {AnimePage(items, more) : items \in Batches(RawAnime), more \in {Bool(TRUE), Bool(FALSE)}}

BatchCalls ==
    [fn : {"fetch_anime"}, key : {EmptyStr}, secret : {EmptyStr},
     remote : {World(<<Failed>>, pages, <<Failed>>, <<Failed>>) : pages \in Streams(AnimeBatches)}]
    \cup
    [fn : {"fetch_books"}, key : {EmptyStr}, secret : {EmptyStr},
     remote : {ShelfWorld(per_subject, details) :
                 per_subject \in {1, 6}, details \in Streams(WorkAnswers)}]
    \cup
    [fn : {"fetch_books"}, key : {EmptyStr}, secret : {EmptyStr}, remote : EditionWorlds]
    \cup
    [fn : {"fetch_music"}, key : {EmptyStr}, secret : {EmptyStr},
     remote : {World(<<Failed>>, <<MusicPage(Num(Len(releases)), releases)>>, <<Failed>>, <<Failed>>) :
                 releases \in Batches(RawMusic)}]
    \cup
    [fn : {"fetch_movies"}, key : {Str(<<"k">>)}, secret : {EmptyStr},
     remote : {World(<<GenresOk>>, <<TmdbPage(Num(1), results)>>, details, <<Failed>>) :
                 results \in Batches(RawMovies), details \in Streams(MovieDetails)}]
    \cup
    [fn : {"rawg.fetch_games"}, key : {Str(<<"k">>)}, secret : {EmptyStr},
     remote : {World(<<Failed>>, <<Ok(Dict("results" :> List(results)))>>, <<Failed>>, <<Failed>>) :
                 results \in Batches(RawGames)}]

InitBatch ==
    /\ Idle
    /\ call \in BatchCalls
    /\ ret = JNull

CallFetchBooks ==
    /\ call.fn = "fetch_books"
    /\ Returns(fetch_books(TheDate, call.remote))

NextBatch ==
    \/ CallFetchMovies
    \/ CallRawgFetchGames
    \/ CallFetchBooks
    \/ CallFetchAnime
    \/ CallFetchMusic

SpecBatch == InitBatch /\ [][NextBatch]_vars

\* The raw items of the one answer of the call
RawItems == call.remote.pages[1].json.d["results"].l

\* The runtime fetch_movies reads for the i-th raw movie: the i-th answer of
\* /movie/{id}, 0 when the request failed or the answer has no runtime
RuntimeRead(i) ==
    LET resp == At(call.remote.details, i)
    IN  IF resp.st = "200" /\ Truthy(resp.json) /\ "runtime" \in DOMAIN resp.json.d
        THEN resp.json.d["runtime"] ELSE Num(0)

\* The positions, from i on, of the raw movies that pass: the runtime read
\* is 0 or null or at least 40, and the movie has an overview or a poster
RECURSIVE MoviesPassing(_)
MoviesPassing(i) ==
    IF i > Len(RawItems) THEN <<>>
    ELSE (IF /\ ~(Truthy(RuntimeRead(i)) /\ RuntimeRead(i).n < 40)
             /\ \/ Truthy(Get(RawItems[i].d, "overview", JNull))
                \/ Truthy(Get(RawItems[i].d, "poster_path", JNull))
          THEN <<i>> ELSE <<>>) \o MoviesPassing(i + 1)

\* C12 as stated: no movie record fetch_movies returns has runtime_minutes
\* below 40
C12_AsStated ==
    (ret # JNull /\ call.fn = "fetch_movies") =>
        \A k \in 1..Len(ret.recs) :
            LET runtime == ret.recs[k].metadata.d["runtime_minutes"]
            IN  runtime.k = "num" /\ runtime.n >= 40

\* C12: when fetch_movies returns, its records are, in order, those of the
\* raw movies whose runtime read is 0, null or at least 40 and which have an
\* overview or a poster; a movie with a runtime from 1 to 39 gives no
\* record, and every record has the runtime read as its runtime_minutes
C12_RuntimeFilter ==
    (ret # JNull /\ call.fn = "fetch_movies" /\ ~ret.exc) =>
        /\ Len(ret.recs) = Len(MoviesPassing(1))
        /\ \A k \in 1..Len(ret.recs) :
              LET i       == MoviesPassing(1)[k]
                  runtime == ret.recs[k].metadata.d["runtime_minutes"]
              IN  /\ ret.recs[k].external_ids.d["tmdb_id"] = RawItems[i].d["id"]
                  /\ runtime = RuntimeRead(i)
                  /\ runtime = JNull \/ runtime.n = 0 \/ runtime.n >= 40

\* Two movies, the first with runtime 10 and left out, the second with
\* runtime 40 and returned
C12_Witness ==
    /\ ret # JNull /\ call.fn = "fetch_movies" /\ ~ret.exc
    /\ Len(RawItems) = 2
    /\ RuntimeRead(1) = Num(10) /\ RuntimeRead(2) = Num(40)
    /\ Truthy(Get(RawItems[1].d, "overview", JNull))
    /\ Len(ret.recs) = 1
    /\ ret.recs[1].metadata.d["runtime_minutes"] = Num(40)

-----------------------------------------------------------------------------
(* Failures met by the adapters of a run *)

\* The adapter of this log line sent its list request and the answer was a
\* failure: a timeout or a status other than 200.  (IGDB and Podcast Index
\* send other requests first and are left out.)
ListRequestFailed(line) ==
    /\ line.step \in Range(AdapterSteps) \ {"igdb_games", "podcast_index"}
    /\ line.met # JNull
    /\ line.met.pages[1].st # "200"

\* C13: when a run has returned its document, every adapter whose request
\* met a timeout or a non-2xx answer contributed an empty or partial result
\* and has an entry under its key in the document's errors
C13_FailureRecorded ==
    pc = "done" =>
        \A i \in 1..Len(log) :
            ListRequestFailed(log[i]) =>
                /\ output.source_stats[log[i].step] = Len(log[i].merged)
                /\ "errors" \in DOMAIN output
                /\ log[i].step \in DOMAIN output.errors

\* The i-th raw item of the batch is one its adapter can map and does not
\* filter out: a movie with an id that passes the filters of fetch_movies, a
\* RAWG game with a name
WellFormed(i) ==
    CASE call.fn = "fetch_movies" ->
            /\ "id" \in DOMAIN RawItems[i].d
            /\ \E k \in 1..Len(MoviesPassing(1)) : MoviesPassing(1)[k] = i
      [] call.fn = "rawg.fetch_games" ->
            /\ RawItems[i].k = "dict"
            /\ Truthy(safe_str(Get(RawItems[i].d, "name", JNull)))

\* rec is the record of the i-th raw item
RecordOf(rec, i) ==
    CASE call.fn = "fetch_movies"     -> rec.external_ids.d["tmdb_id"] = RawItems[i].d["id"]
      [] call.fn = "rawg.fetch_games" -> rec.external_ids.d["rawg_id"] = RawItems[i].d["id"]

\* C14: every well-formed raw item of a batch has its record in what the
\* adapter returns, whatever the other items of the batch are
C14_SiblingsUnaffected ==
    (ret # JNull /\ call.fn \in {"fetch_movies", "rawg.fetch_games"}) =>
        \A i \in 1..Len(RawItems) :
            WellFormed(i) => \E k \in 1..Len(ret.recs) : RecordOf(ret.recs[k], i)

\* C15: no fetch of an adapter lets an exception reach ingest_date, whatever
\* the remote answers, and once the document is returned every failure an
\* adapter met is in it as data: a count in source_stats and an error string
\* in errors
C15_NoExceptionUpward ==
    /\ \A i \in AdapterLines : FetchReturned(log[i])
    /\ pc = "done" =>
          \A i \in AdapterLines :
              (log[i].exc \/ ListRequestFailed(log[i])) =>
                  /\ log[i].step \in DOMAIN output.source_stats
                  /\ "errors" \in DOMAIN output /\ log[i].step \in DOMAIN output.errors

\* C16: every record an adapter returns has a title that is a non-empty
\* string
C16_TitleNonEmpty ==
    ret # JNull =>
        \A k \in 1..Len(ret.recs) : ret.recs[k].title.k = "str" /\ ret.recs[k].title.s # <<>>

\* The steps of ingest_date in the order of the code
StepOrder == AdapterSteps \o <<"omdb", "watchmode", "sort", "save">>

\* C17: the steps of a run happen one at a time in the order of StepOrder
\* (so no enricher before the last adapter is through), and a run that has
\* ended went through every step: no failure skipped a later one
C17_FixedOrder ==
    /\ Len(log) <= Len(StepOrder)
    /\ \A i \in 1..Len(log) : log[i].step = StepOrder[i]
    /\ pc \in {"done", "raised"} => Len(log) = Len(StepOrder)

\* C18: the returned document has the key errors exactly when the fetch of
\* some adapter raised during the run, errors is never an empty mapping, and
\* source_stats has an entry for every adapter
C18_ErrorsIffRaised ==
    pc = "done" =>
        /\ "errors" \in DOMAIN output <=> \E i \in AdapterLines : ~FetchReturned(log[i])
        /\ "errors" \in DOMAIN output => DOMAIN output.errors # {}
        /\ \A i \in 1..Len(AdapterSteps) : AdapterSteps[i] \in DOMAIN output.source_stats

\* C19: at every point of a run the day's file is absent or holds a complete
\* document, never a part of one
C19_AtomicWrite ==
    disk = Absent \/ (output # JNull /\ disk = Complete(output))

\* C20: the number an enrich call returns is the number of records the call
\* changed
C20_CountsTouched ==
    ret # JNull =>
        ret.enriched = Cardinality({i \in 1..Len(call.releases) : ret.releases[i] # call.releases[i]})

\* C21: a fetch_books sends at most OL_MAX_ENRICHMENTS work requests, however
\* many books the searches returned and whether or not the work requests
\* succeed, and it does not fail
C21_LookupsCapped ==
    (ret # JNull /\ call.fn = "fetch_books") =>
        /\ ~ret.exc
        /\ ret.reqs.detail <= OL_MAX_ENRICHMENTS

(* One IGDBSource used by the daily jobs of run_scheduled *)

\* The answers of the token endpoint: a failure, a refusal, a body with no
\* token, a token
TokenAnswers == {Failed, Resp("401", JNull), Ok(EmptyDict), TokenOk}

GamesAnswers == {Failed, Ok(List(<<Dict(("id" :> Num(5)) @@ ("name" :> Str(Nova)))>>))}

TokenWorlds ==
    {World(<<Failed>>, <<games>>, <<Failed>>, auth) :
        games \in GamesAnswers, auth \in Streams(TokenAnswers)}

InitToken ==
    /\ Idle
    /\ call \in [fn : {"igdb.fetch_games"}, self : {IGDBSource(id, secret) : id, secret \in Credential},
                 remote : TokenWorlds, job : {1}]
    /\ ret = JNull

\* fetch_games of the pipeline's IGDBSource, as the running job calls it
DailyFetchGames ==
    /\ call.fn = "igdb.fetch_games"
    /\ Returns(IGDB_fetch_games(call.self, TheDate, call.remote))

\* The next daily job: the same pipeline, so the same IGDBSource as the job
\* before left it
NextDailyJob ==
    /\ ret # JNull
    /\ call.job = 1
    /\ \E remote \in TokenWorlds :
          call' = [call EXCEPT !.self = ret.self, !.remote = remote, !.job = 2]
    /\ ret' = JNull
    /\ UNCHANGED pipeVars

NextToken == DailyFetchGames \/ NextDailyJob

SpecToken == InitToken /\ [][NextToken]_vars

\* C22: a fetch_games on an IGDBSource that holds a token from an earlier
\* fetch sends no token request
C22_TokenCached ==
    (ret # JNull /\ call.self.access_token # JNull) => ret.reqs.auth = 0

-----------------------------------------------------------------------------
(* The requests and sleeps of fetch_music's pagination *)

\* The answer to the request at position p of events
AnswerAt(events, p) ==
    At(call.remote.pages, Cardinality({q \in 1..p : events[q] = "request"}))

\* The request at position p of events is the retry of the one before
IsRetry(events, p) == p > 1 /\ events[p - 1] = "sleep 5"

\* C23: in the pagination of fetch_music a first request answered 503 is
\* followed by the usual sleep, the longer sleep and one retry; nothing else
\* is retried, a retry is never retried, so no _get sends more than two
\* requests; and a retry that is answered 503 again or fails is the last
\* request of the pagination, the fetch returning, without raising, the
\* records of the pages before
C23_SingleRetry ==
    (ret # JNull /\ call.fn = "fetch_music") =>
        LET E == ret.events
        IN  /\ Cardinality({p \in 1..Len(E) : E[p] = "request"}) = ret.reqs.list
            /\ ret.reqs.list <= 2 * Len(ret.offsets)
            /\ \A p \in 1..Len(E) :
                  /\ (E[p] = "request" /\ ~IsRetry(E, p) /\ AnswerAt(E, p).st = "503") =>
                        /\ p + 3 <= Len(E)
                        /\ E[p + 1] = "sleep 1.1" /\ E[p + 2] = "sleep 5" /\ E[p + 3] = "request"
                  /\ E[p] = "sleep 5" =>
                        /\ p >= 3 /\ E[p - 1] = "sleep 1.1" /\ E[p - 2] = "request"
                        /\ ~IsRetry(E, p - 2)
                        /\ AnswerAt(E, p - 2).st = "503"
                  /\ (E[p] = "request" /\ IsRetry(E, p) /\ AnswerAt(E, p).st # "200") =>
                        /\ p = Len(E)
                        /\ ~ret.exc
                        /\ Len(ret.offsets) > 1 => ret.recs # <<>>

\* A second page rate-limited twice: five events after the first page, the
\* retry the last of them, and the album of the first page returned
C23_Witness ==
    /\ ret # JNull /\ call.fn = "fetch_music"
    /\ Len(call.remote.pages) = 3
    /\ call.remote.pages[3].st = "503"
    /\ ret.events = <<"request", "sleep 1.1", "request", "sleep 1.1", "sleep 5", "request">>
    /\ ret.reqs.list = 3 /\ ret.offsets = <<0, 100>>
    /\ ~ret.exc /\ Len(ret.recs) = 1

\* C24: in the pagination of fetch_music every request but the last is
\* followed by a sleep before the next request is sent
C24_DelayAfterEveryRequest ==
    (ret # JNull /\ call.fn = "fetch_music") =>
        \A p \in 1..Len(ret.events) - 1 :
            ret.events[p] = "request" => ret.events[p + 1] # "request"

(* fetch_anime's deduplication *)

\* The raw anime of the pages a fetch_anime asked for, from request n on, in
\* the order fetched
RECURSIVE AnimeFetched(_)
AnimeFetched(n) ==
    IF n > ret.reqs.list THEN <<>>
    ELSE LET resp == At(call.remote.pages, n)
         IN  (IF resp.st = "200" THEN Get(resp.json.d, "data", EmptyList).l ELSE <<>>)
             \o AnimeFetched(n + 1)

RawMalId(anime) == Get(anime.d, "mal_id", Num(0))

\* The positions, from i on, of the raw anime whose id no earlier one has
RECURSIVE FirstOfId(_, _)
FirstOfId(raw, i) ==
    IF i > Len(raw) THEN <<>>
    ELSE (IF \E j \in 1..i - 1 : RawMalId(raw[j]) = RawMalId(raw[i]) THEN <<>> ELSE <<i>>)
         \o FirstOfId(raw, i + 1)

\* C25: fetch_anime returns one record for each MAL id among the anime it
\* fetched, built from the first anime of that id, in the order in which the
\* ids first appear; the number of duplicates it reports is the number of
\* anime fetched less the number of records returned
C25_OnePerMalId ==
    (ret # JNull /\ call.fn = "fetch_anime" /\ ~ret.exc) =>
        LET raw   == AnimeFetched(1)
            first == FirstOfId(raw, 1)
        IN  /\ Len(ret.recs) = Len(first)
            /\ \A k \in 1..Len(ret.recs) :
                  /\ ret.recs[k].external_ids.d["mal_id"] = RawMalId(raw[first[k]])
                  /\ ret.recs[k].title = Get(raw[first[k]].d, "title", Unknown)
            /\ \A k, l \in 1..Len(ret.recs) :
                  ret.recs[k].external_ids.d["mal_id"] = ret.recs[l].external_ids.d["mal_id"] => k = l
            /\ ret.dupes_removed = Len(raw) - Len(ret.recs)

\* Two pages fetched, an id of the first page again on the second under
\* another title: the record of the first page is the one returned
C25_Witness ==
    /\ ret # JNull /\ call.fn = "fetch_anime" /\ ~ret.exc
    /\ ret.reqs.list >= 2
    /\ ret.dupes_removed >= 1
    /\ Len(ret.recs) = 2
    /\ \E i, j \in 1..Len(AnimeFetched(1)) :
          /\ i < j
          /\ RawMalId(AnimeFetched(1)[i]) = Num(7) /\ RawMalId(AnimeFetched(1)[j]) = Num(7)
          /\ AnimeFetched(1)[i] # AnimeFetched(1)[j]
          /\ ret.recs[1].title = AnimeFetched(1)[i].d["title"]


\* The one book of an EditionWorlds call
TheBook == call.remote.pages[1].json.d["docs"].l[1]

OneBookCall == call.fn = "fetch_books" /\ call.remote \in EditionWorlds

\* Some edition date of the book holds the target year
YearInEditions ==
    LET pds == Get(TheBook.d, "publish_date", EmptyList).l
    IN  \E i \in 1..Len(pds) : Contains(pds[i].s, <<"2","0","2","6">>)

\* Some edition date of the book names the target month
MonthInEditions ==
    LET pds == Get(TheBook.d, "publish_date", EmptyList).l
    IN  \E i \in 1..Len(pds) :
            \/ Contains(pds[i].s, <<"F","e","b","r","u","a","r","y"," ","2","0","2","6">>)
            \/ Contains(pds[i].s, <<"F","e","b"," ","2","0","2","6">>)

FirstYearIsTarget == Get(TheBook.d, "first_publish_year", JNull) = Num(2026)

\* C26 as stated: a book with no edition date in the target month, accepted
\* for its year, carries the requested date as its release_date
C26_AsStated ==
    (ret # JNull /\ OneBookCall /\ ~MonthInEditions) =>
        \A i \in 1..Len(ret.recs) : ret.recs[i].release_date = TheDate

\* C26, amended: a book with an edition date that holds the target year, of
\* whatever month, is recorded under the requested date; a book accepted only
\* because its first_publish_year is the target year is recorded under the
\* year alone; a book with neither is not recorded
C26_YearOnlyDates ==
    (ret # JNull /\ OneBookCall) =>
        /\ ~ret.exc
        /\ YearInEditions =>
              (Len(ret.recs) = 1 /\ ret.recs[1].release_date = TheDate)
        /\ (~YearInEditions /\ FirstYearIsTarget) =>
              (Len(ret.recs) = 1 /\ ret.recs[1].release_date = Str(<<"2","0","2","6">>))
        /\ (~YearInEditions /\ ~FirstYearIsTarget) => ret.recs = <<>>

\* A book whose only edition date is of the target year in another month and
\* whose first_publish_year is another year has been fetched
C26_Witness ==
    /\ ret # JNull /\ OneBookCall
    /\ YearInEditions /\ ~MonthInEditions /\ ~FirstYearIsTarget
    /\ Len(ret.recs) = 1


\* C27: in every output document total_releases is the length of releases and
\* the sum of the values of source_stats, whichever adapters returned or
\* raised and whatever the RAWG title filter dropped; the merged list and the
\* counts agree at every step of the run as well
C27_TotalsAgree ==
    /\ Len(all_releases) = SumOver(source_stats, DOMAIN source_stats)
    /\ output # JNull =>
          /\ output.total_releases = Len(output.releases)
          /\ output.total_releases = SumOver(output.source_stats, DOMAIN output.source_stats)

\* A document was returned by a run where an adapter raised, another merged
\* records and the RAWG title filter dropped a game
C27_Witness ==
    /\ output # JNull
    /\ output.total_releases > 0
    /\ \E i \in AdapterLines : log[i].exc
    /\ \E i \in AdapterLines :
          log[i].step = "rawg_games" /\ ~log[i].exc /\ Len(log[i].merged) < Len(log[i].fetched)


\* The enricher of the call, applied to a list of records
EnrichOf(fn, releases) ==
    CASE fn = "omdb.enrich" -> OMDb_enrich(call.key, releases, call.max_lookups, call.remote)
      [] fn = "tastedive.enrich" -> TasteDive_enrich(call.key, releases, call.max_lookups, call.remote)
      [] fn = "watchmode.enrich" -> Watchmode_enrich(call.key, releases, call.max_lookups, call.remote)

IsScreen(r) == r.media_type \in {"movie", "tv"}

\* r as an enricher may have left it: the fields but metadata and external_ids
SameRecord(r, s) == [r EXCEPT !.metadata = s.metadata, !.external_ids = s.external_ids] = s

\* C28: an enrich call returns the records it was given, as many and in their
\* order; OMDb and Watchmode leave a record that is no movie and no show as it
\* was and send the requests they would send were it not in the list; with an
\* empty key no request is sent, no record is changed and 0 is returned
C28_Frame ==
    ret # JNull =>
        /\ Len(ret.releases) = Len(call.releases)
        /\ \A i \in 1..Len(call.releases) : SameRecord(call.releases[i], ret.releases[i])
        /\ call.fn \in {"omdb.enrich", "watchmode.enrich"} =>
              /\ \A i \in 1..Len(call.releases) :
                    ~IsScreen(call.releases[i]) => ret.releases[i] = call.releases[i]
              /\ ret.requests = EnrichOf(call.fn, SelectSeq(call.releases, IsScreen)).requests
              /\ (\A i \in 1..Len(call.releases) : ~IsScreen(call.releases[i])) => ret.requests = 0
        /\ ~Truthy(call.key) =>
              /\ ret.requests = 0
              /\ ret.releases = call.releases
              /\ ret.enriched = 0

\* OMDb, called with a key on a book followed by a movie, has left the book
\* as it was and added to the movie with its one request
C28_Witness ==
    /\ ret # JNull
    /\ call.fn = "omdb.enrich" /\ Truthy(call.key) /\ call.pass = 1
    /\ Len(call.releases) = 2
    /\ call.releases[1].media_type = "book" /\ call.releases[2].media_type = "movie"
    /\ ret.releases[1] = call.releases[1]
    /\ ret.releases[2] # call.releases[2]
    /\ ret.requests = 1


\* The raw releases of the one page of a fetch_music call
RawReleases == call.remote.pages[1].json.d["releases"].l

\* The primary type of a raw release, lower-cased
RawType(rel) ==
    Lower(Get(Get(rel.d, "release-group", EmptyDict).d, "primary-type", EmptyStr).s)

\* The deduplication key of a raw release
RawKey(rel) ==
    <<Strip(Lower(rel.d["title"].s)),
      SortedTuple(MB_artists(Get(rel.d, "artist-credit", EmptyList).l))>>

SingleType == <<"s","i","n","g","l","e">>

\* C29: fetch_music returns, for every titled release of the fetched pages
\* that is no single, a record of its title and artists, also when a single
\* of that title and those artists came earlier; and it returns no single
C29_NonSinglesKept ==
    (ret # JNull /\ call.fn = "fetch_music") =>
        /\ ~ret.exc
        /\ \A j \in 1..Len(RawReleases) :
              RawType(RawReleases[j]) # SingleType =>
                  \E i \in 1..Len(ret.recs) : MB_key(ret.recs[i]) = RawKey(RawReleases[j])
        /\ \A i \in 1..Len(ret.recs) :
              Lower(ret.recs[i].metadata.d["release_type"].s) # SingleType


Paginated == {"fetch_movies", "fetch_tv", "fetch_anime", "fetch_music"}

\* The answers to the list requests of the call, in the order they are read
ListAnswers == call.remote.pages

\* The first list request whose answer is no page (0 when every answer is one)
FirstFailure ==
    LET bad == {p \in 1..Len(ListAnswers) : ListAnswers[p].st # "200"}
    IN  IF bad = {} THEN 0 ELSE CHOOSE p \in bad : \A q \in bad : p <= q

\* The list request at FirstFailure failed: for MusicBrainz a 503 is asked
\* again once, and the request fails when the second answer is no page either
RequestFailed ==
    /\ call.fn \in Paginated
    /\ FirstFailure > 0
    /\ (call.fn = "fetch_music" /\ ListAnswers[FirstFailure].st = "503")
          => At(ListAnswers, FirstFailure + 1).st # "200"
    /\ call.fn \in {"fetch_movies", "fetch_tv"} =>
          \A q \in 1..(FirstFailure - 1) :
              Get(ListAnswers[q].json.d, "total_pages", Num(1)).k = "num"

\* The answers read when the failed request has been sent
ReadAtFailure ==
    IF call.fn = "fetch_music" /\ ListAnswers[FirstFailure].st = "503"
    THEN FirstFailure + 1 ELSE FirstFailure

\* The titles of the raw items of a page
PageTitles(resp) ==
    LET items == CASE call.fn \in {"fetch_movies", "fetch_tv"} -> Get(resp.json.d, "results", EmptyList).l
                   [] call.fn = "fetch_anime" -> Get(resp.json.d, "data", EmptyList).l
                   [] call.fn = "fetch_music" -> Get(resp.json.d, "releases", EmptyList).l
    IN  {items[j].d[IF call.fn = "fetch_tv" THEN "name" ELSE "title"] : j \in 1..Len(items)}

\* C30: when a list request of a paginated fetch fails, the fetch raises
\* nothing, asks for no page after the failed one and returns the records of
\* the pages it had fetched before
C30_FailureKeepsPages ==
    (ret # JNull /\ RequestFailed) =>
        /\ ~ret.exc
        /\ ret.reqs.list <= ReadAtFailure
        /\ \A q \in 1..(FirstFailure - 1) :
              q <= ret.reqs.list =>
                  \A title \in PageTitles(ListAnswers[q]) :
                      \E i \in 1..Len(ret.recs) : ret.recs[i].title = title

\* A fetch_anime whose first page held two anime and announced a next page,
\* and whose second request failed, returned the two records
C30_Witness ==
    /\ ret # JNull /\ RequestFailed
    /\ call.fn = "fetch_anime"
    /\ FirstFailure = 2
    /\ Len(Get(ListAnswers[1].json.d, "data", EmptyList).l) = 2
    /\ ret.reqs.list = 2
    /\ Len(ret.recs) = 2

=============================================================================
